---------------------------- MODULE Spec2Model ----------------------------
(* shymini: the beacon ingress pipeline (privacy gate, session resolver,   *)
(* hit resolver, bounce recompute) over the relational store and the       *)
(* in-process caches.  Every await of process_ingress is one step of a     *)
(* task, so requests interleave exactly where the async code can suspend.  *)
EXTENDS Integers, Sequences, FiniteSets, TLC

(* ------------------------------ bounds --------------------------------- *)
\* beacons started in one run of the session/hit resolver specifications
MaxBeacons == 3
\* beacons started in one run of the privacy-gate specification
MaxGateBeacons == 2
\* beacons started in one run of the concurrent specification
MaxConcBeacons == 2
\* service updates in one run of the privacy-gate specification
MaxUpdates == 1
\* clock ticks in one run
MaxTime == 1

(* ------------------------------ strings -------------------------------- *)
\* A string is a sequence of characters; a character is a one-letter
\* TLA+ string.  "A"/"a" and "B"/"b" are the letters with two cases.
\* In an address list or an IP header a whole address ("10.0.0.1") or a
\* whole number ("31") is one token, beside the characters " ", "," and "/".
Lower(c) == CASE c = "A" -> "a" [] c = "B" -> "b" [] c = "H" -> "h" [] OTHER -> c

to_lowercase(s) == [i \in DOMAIN s |-> Lower(s[i])]

RECURSIVE trim_start(_)
trim_start(s) == IF s # <<>> /\ Head(s) = " " THEN trim_start(Tail(s)) ELSE s

RECURSIVE trim_end(_)
trim_end(s) ==
    IF s # <<>> /\ s[Len(s)] = " " THEN trim_end(SubSeq(s, 1, Len(s) - 1)) ELSE s

trim(s) == trim_end(trim_start(s))

\* str::split(','): the pieces between commas, empty pieces included
RECURSIVE split_comma(_)
split_comma(s) ==
    IF \E i \in DOMAIN s : s[i] = ","
    THEN LET i == CHOOSE j \in DOMAIN s :
                      s[j] = "," /\ \A k \in 1..(j - 1) : s[k] # ","
         IN  <<SubSeq(s, 1, i - 1)>> \o split_comma(SubSeq(s, i + 1, Len(s)))
    ELSE <<s>>

Range(f) == {f[x] : x \in DOMAIN f}

None == <<"none">>
Some(v) == <<"some", v>>
IsSome(o) == o[1] = "some"
Unwrap(o) == o[2]


(* ------------------------------ domain --------------------------------- *)
Active == "AC"
Archived == "AR"

Robot == "Robot"
Desktop == "Desktop"
Phone == "Phone"
Tablet == "Tablet"
Other == "Other"

Js == "JS"
Pixel == "PX"

NoKey == "none"
NoSession == 0
NoHit == 0

\* the configured origins "*" and "h://A, h://b" (scheme h, hosts A and b)
OriginsStar == <<"*">>
OriginsList == <<"h", ":", "/", "/", "A", ",", " ", "h", ":", "/", "/", "b">>

(* ------------------------------ privacy -------------------------------- *)
\* is_dnt_enabled reading the DNT header only
is_dnt_enabled_dnt_only(headers) ==
    IF IsSome(headers.dnt) THEN trim(Unwrap(headers.dnt)) = <<"1">> ELSE FALSE

\* privacy::is_dnt_enabled
is_dnt_enabled(headers) ==
    LET dnt == IF IsSome(headers.dnt) THEN trim(Unwrap(headers.dnt)) = <<"1">> ELSE FALSE
        gpc == IF IsSome(headers.gpc) THEN trim(Unwrap(headers.gpc)) = <<"1">> ELSE FALSE
    IN  dnt \/ gpc

\* privacy::get_client_ip: the first non-blank of X-Forwarded-For's first
\* element, X-Real-IP, CF-Connecting-IP and True-Client-IP
get_client_ip(headers) ==
    LET first_ip == trim(split_comma(Unwrap(headers.x_forwarded_for))[1])
        real_ip == trim(Unwrap(headers.x_real_ip))
        cf_ip == trim(Unwrap(headers.cf_connecting_ip))
        true_ip == trim(Unwrap(headers.true_client_ip))
    IN  IF IsSome(headers.x_forwarded_for) /\ first_ip # <<>> THEN Some(first_ip)
        ELSE IF IsSome(headers.x_real_ip) /\ real_ip # <<>> THEN Some(real_ip)
        ELSE IF IsSome(headers.cf_connecting_ip) /\ cf_ip # <<>> THEN Some(cf_ip)
        ELSE IF IsSome(headers.true_client_ip) /\ true_ip # <<>> THEN Some(true_ip)
        ELSE None

\* an address: its family and its octets
Addr(v, octets) == [v |-> v, octets |-> octets]

Zeros(n) == [i \in 1..n |-> 0]

\* str::parse::<IpAddr> of the addresses the model sends or lists
parse_ip(ip) ==
    CASE ip = <<"10.0.0.0">> -> Some(Addr(4, <<10, 0, 0, 0>>))
      [] ip = <<"10.0.0.1">> -> Some(Addr(4, <<10, 0, 0, 1>>))
      [] ip = <<"10.0.0.2">> -> Some(Addr(4, <<10, 0, 0, 2>>))
      [] ip = <<"10.9.0.1">> -> Some(Addr(4, <<10, 9, 0, 1>>))
      [] ip = <<"0.0.0.0">> -> Some(Addr(4, <<0, 0, 0, 0>>))
      [] ip = <<"::">> -> Some(Addr(6, Zeros(16)))
      [] ip = <<"::1">> -> Some(Addr(6, Zeros(15) \o <<1>>))
      [] OTHER -> None

\* str::parse::<u8> of a prefix length
parse_prefix(s) ==
    CASE s = <<"0">> -> Some(0) [] s = <<"8">> -> Some(8) [] s = <<"31">> -> Some(31)
      [] s = <<"32">> -> Some(32) [] s = <<"33">> -> Some(33) [] OTHER -> None

\* IpNetwork::from_str: "addr" (a host network) or "addr/prefix", the
\* prefix at most the width of the address
parse_network(s) ==
    LET slash == IF \E i \in DOMAIN s : s[i] = "/"
                 THEN CHOOSE i \in DOMAIN s : s[i] = "/" /\ \A k \in 1..(i - 1) : s[k] # "/"
                 ELSE 0
        addr == parse_ip(IF slash = 0 THEN s ELSE SubSeq(s, 1, slash - 1))
        width == IF IsSome(addr) /\ Unwrap(addr).v = 4 THEN 32 ELSE 128
        prefix == IF slash = 0 THEN Some(width)
                  ELSE parse_prefix(SubSeq(s, slash + 1, Len(s)))
    IN  IF IsSome(addr) /\ IsSome(prefix) /\ Unwrap(prefix) <= width
        THEN Some([addr |-> Unwrap(addr), prefix |-> Unwrap(prefix)])
        ELSE None

Pow2(n) == CASE n = 0 -> 1 [] n = 1 -> 2 [] n = 2 -> 4 [] n = 3 -> 8 [] n = 4 -> 16 [] n = 5 -> 32 [] n = 6 -> 64 [] n = 7 -> 128 [] n = 8 -> 256

\* IpNetwork::contains: same family and the same leading prefix bits
contains(network, ip) ==
    LET whole == network.prefix \div 8
        bits == network.prefix % 8
    IN  /\ network.addr.v = ip.v
        /\ \A i \in 1..whole : network.addr.octets[i] = ip.octets[i]
        /\ bits > 0 =>
              network.addr.octets[whole + 1] \div Pow2(8 - bits)
                  = ip.octets[whole + 1] \div Pow2(8 - bits)

\* privacy::get_user_agent
get_user_agent(headers) == headers.user_agent

\* url::Url::parse of the Referer value and the scheme://host[:port] built from it
RefererOrigin(url) == url.scheme \o <<":", "/", "/">> \o url.host \o url.port

\* privacy::get_origin
get_origin(headers) ==
    IF IsSome(headers.origin) /\ trim(Unwrap(headers.origin)) # <<>>
    THEN Some(to_lowercase(trim(Unwrap(headers.origin))))
    ELSE IF IsSome(headers.referer) /\ Unwrap(headers.referer).parses
         THEN Some(to_lowercase(RefererOrigin(Unwrap(headers.referer))))
         ELSE None

\* get_origins_list keeping the configured entries as typed
get_origins_list_verbatim(service) ==
    IF service.origins = OriginsStar
    THEN <<OriginsStar>>
    ELSE split_comma(service.origins)

\* Service::get_origins_list
get_origins_list(service) ==
    IF service.origins = OriginsStar
    THEN <<OriginsStar>>
    ELSE LET parts == split_comma(service.origins)
         IN  [i \in DOMAIN parts |-> to_lowercase(trim(parts[i]))]

\* Service::is_origin_allowed
is_origin_allowed(service, origin) ==
    IF service.origins = OriginsStar
    THEN TRUE
    ELSE to_lowercase(origin) \in Range(get_origins_list(service))

\* handlers::validate_origin: <<allow_origin, origin_valid>>
validate_origin(headers, service) ==
    IF service.origins = OriginsStar
    THEN <<OriginsStar, TRUE>>
    ELSE LET remote_origin == get_origin(headers)
         IN  IF IsSome(remote_origin)
             THEN IF is_origin_allowed(service, Unwrap(remote_origin))
                  THEN <<Unwrap(remote_origin), TRUE>>
                  ELSE <<OriginsStar, FALSE>>
             ELSE <<OriginsStar, FALSE>>

(* ------------------------------ user agent ----------------------------- *)
\* woothee's verdict on the user agents the model sends: the category and
\* whether the lower-cased browser name contains "bot" or "spider"
Woothee(user_agent) ==
    CASE user_agent = "ua_firefox"   -> [parsed |-> TRUE, category |-> "pc", botname |-> FALSE]
      [] user_agent = "ua_googlebot" -> [parsed |-> TRUE, category |-> "crawler", botname |-> TRUE]
      [] user_agent = "ua_ahrefsbot" -> [parsed |-> TRUE, category |-> "misc", botname |-> TRUE]
      [] user_agent = "ua_iphone"    -> [parsed |-> TRUE, category |-> "smartphone", botname |-> FALSE]
      [] OTHER                       -> [parsed |-> FALSE, category |-> "", botname |-> FALSE]

\* ua::parse_user_agent: the device type
parse_user_agent(user_agent) ==
    LET result == Woothee(user_agent)
    IN  IF result.parsed
        THEN LET is_bot == result.category = "crawler" \/ result.botname
             IN  IF is_bot THEN Robot
                 ELSE CASE result.category = "smartphone"  -> Phone
                        [] result.category = "mobilephone" -> Phone
                        [] result.category = "tablet"      -> Tablet
                        [] result.category = "pc"          -> Desktop
                        [] result.category = "crawler"     -> Robot
                        [] OTHER                           -> Other
        ELSE Other

(* ------------------------------ fingerprint ---------------------------- *)
\* compute that never salts
compute_unsalted(ip, user_agent, service_id, aggressive_salting, date) == <<ip, user_agent>>

\* SessionAssociationHash::compute: SHA-256 is modelled as injective, the
\* digest being the tuple of what was fed to the hasher
compute(ip, user_agent, service_id, aggressive_salting, date) ==
    IF aggressive_salting
    THEN <<ip, user_agent, service_id, date>>
    ELSE <<ip, user_agent>>

\* a cache key without the service id
cache_key_no_service(service_id, hash) == <<"session", 0, hash>>

\* format!("session_{}_{}", service.id, hash)
cache_key(service_id, hash) == <<"session", service_id, hash>>

\* format!("hit_{}", k)
idempotency_key(k) == <<"hit", k>>
(* ------------------------------ state ---------------------------------- *)
VARIABLES
    services,               \* store: services rows, by ServiceId
    sessions,               \* store: sessions rows, by SessionId
    hits,                   \* store: hits rows, by HitId
    next_session,           \* the next fresh SessionId (SessionId::new)
    next_hit,               \* the hits table's id sequence
    service_origins,        \* AppCache.service_origins
    script_inject,          \* AppCache.script_inject
    session_associations,   \* AppCache.session_associations
    hit_idempotency,        \* AppCache.hit_idempotency
    settings,               \* AppState.settings
    day,                    \* the UTC calendar day of Utc::now()
    now,                    \* Utc::now()
    task,                   \* the process_ingress invocations in flight
    resp,                   \* the last response a beacon handler returned
    started,                \* history: beacon requests received so far
    updates,                \* history: service updates applied so far
    sent,                   \* history: invocations that reached the hit resolver
    lost,                   \* history: cache keys whose entry expired or was evicted
    written                 \* moka: the time of the last insert of each cache entry

store == <<services, sessions, hits, next_session, next_hit>>
caches == <<service_origins, script_inject, session_associations, hit_idempotency>>
vars == <<services, sessions, hits, next_session, next_hit, service_origins,
          script_inject, session_associations, hit_idempotency, settings, day,
          now, task, resp, started, updates, sent, lost, written>>

Procs == {"p1", "p2"}

EmptyMap == [x \in {} |-> 0]

\* a services row
ServiceRow(id, tracking_id, status, origins, respect_dnt, ignore_robots) ==
    [id |-> id, tracking_id |-> tracking_id, status |-> status, origins |-> origins,
     respect_dnt |-> respect_dnt, ignore_robots |-> ignore_robots,
     collect_ips |-> FALSE, ignored_ips |-> <<>>, script_inject |-> <<>>]

NoService == ServiceRow(0, "", Archived, <<>>, FALSE, FALSE)

NoHeaders ==
    [origin |-> None, referer |-> None, dnt |-> None, gpc |-> None,
     x_forwarded_for |-> None, x_real_ip |-> None, cf_connecting_ip |-> None,
     true_client_ip |-> None, user_agent |-> ""]

IdleTask ==
    [pc |-> "idle", n |-> 0, tracker |-> Pixel, service |-> NoService, time |-> 0,
     ip |-> <<>>, user_agent |-> "", identifier |-> <<>>, idempotency |-> NoKey,
     cache_key |-> <<>>, session_id |-> NoSession, initial |-> FALSE,
     hit_id |-> NoHit, hit_count |-> 0, outcome |-> "", wrote |-> FALSE,
     tracking_id |-> "", headers |-> NoHeaders, overlapped |-> FALSE, touch |-> 0,
     fetched |-> <<>>, backfills |-> <<>>, input |-> <<>>]

NoResp == [n |-> 0, handler |-> "", code |-> 0, body |-> "", tracking_id |-> "",
           headers |-> NoHeaders, service |-> NoService]

\* the state at start: no session, no hit, empty caches, no request yet
Boot ==
    /\ sessions = EmptyMap
    /\ hits = EmptyMap
    /\ next_session = 1
    /\ next_hit = 1
    /\ service_origins = EmptyMap
    /\ script_inject = EmptyMap
    /\ session_associations = EmptyMap
    /\ hit_idempotency = EmptyMap
    /\ day = 0
    /\ now = 0
    /\ task = [p \in Procs |-> IdleTask]
    /\ resp = NoResp
    /\ started = 0
    /\ updates = 0
    /\ sent = EmptyMap
    /\ lost = EmptyMap
    /\ written = EmptyMap

Init ==
    /\ services = (1 :> ServiceRow(1, "t1", Active, OriginsStar, FALSE, FALSE))
               @@ (2 :> ServiceRow(2, "t2", Active, OriginsList, TRUE, TRUE))
               @@ (3 :> ServiceRow(3, "t3", Archived, OriginsStar, FALSE, FALSE))
    /\ settings = [aggressive_hash_salting |-> FALSE, block_all_ips |-> FALSE]
    /\ Boot

(* ------------------------------ store ---------------------------------- *)
\* db::get_service_by_tracking_id: the row with that (unique) tracking_id
get_service_by_tracking_id(tracking_id) ==
    LET found == {id \in DOMAIN services : services[id].tracking_id = tracking_id}
    IN  IF found = {} THEN None ELSE Some(services[CHOOSE id \in found : TRUE])

\* get_active_service_by_tracking_id without the status test
get_active_service_by_tracking_id_any(tracking_id) ==
    get_service_by_tracking_id(tracking_id)

\* db::get_active_service_by_tracking_id: ServiceNotFound unless Active
get_active_service_by_tracking_id(tracking_id) ==
    LET service == get_service_by_tracking_id(tracking_id)
    IN  IF IsSome(service) /\ Unwrap(service).status # Active THEN None ELSE service

\* Iterator::filter_map over the comma-separated elements: the networks
\* that parse, in order
RECURSIVE filter_map_parse(_)
filter_map_parse(elements) ==
    IF elements = <<>> THEN <<>>
    ELSE LET network == parse_network(trim(Head(elements)))
         IN  (IF IsSome(network) THEN <<Unwrap(network)>> ELSE <<>>)
                 \o filter_map_parse(Tail(elements))

\* get_ignored_networks that gives up the list at an element that does not parse
get_ignored_networks_all_or_nothing(service) ==
    IF \E i \in DOMAIN split_comma(service.ignored_ips) :
           ~IsSome(parse_network(trim(split_comma(service.ignored_ips)[i])))
    THEN <<>>
    ELSE filter_map_parse(split_comma(service.ignored_ips))

\* Service::get_ignored_networks
get_ignored_networks(service) ==
    IF trim(service.ignored_ips) = <<>> THEN <<>>
    ELSE filter_map_parse(split_comma(service.ignored_ips))

\* privacy::is_ip_ignored
is_ip_ignored(ip, ignored_networks) ==
    IF ignored_networks = <<>> THEN FALSE
    ELSE IF ~IsSome(parse_ip(ip)) THEN FALSE
    ELSE \E i \in DOMAIN ignored_networks : contains(ignored_networks[i], Unwrap(parse_ip(ip)))

\* schema: a foreign key, rows[id] must exist for a row that refers to it
references(rows, id) == id \in DOMAIN rows

\* schema: ON DELETE CASCADE, the rows of a deleted service go with it
on_delete_cascade(rows, service_id) ==
    [r \in {x \in DOMAIN rows : rows[x].service_id # service_id} |-> rows[r]]

\* db::delete_service: DELETE FROM services WHERE id
delete_service(id) == [s \in DOMAIN services \ {id} |-> services[s]]

\* db::create_session: the inserted row (last_seen = start_time, is_bounce = true)
create_session(input) ==
    [service_id |-> input.service_id, identifier |-> input.identifier,
     start_time |-> input.start_time, last_seen |-> input.start_time,
     device_type |-> input.device_type, is_bounce |-> TRUE,
     ip |-> input.ip, fingerprint |-> input.fingerprint, by |-> input.by]

\* update_session_last_seen whose UPDATE matches no row
update_session_last_seen_no_row(id, last_seen) == sessions

\* db::update_session_last_seen: UPDATE sessions SET last_seen WHERE id
update_session_last_seen(id, last_seen) ==
    [s \in DOMAIN sessions |->
        IF s = id THEN [sessions[s] EXCEPT !.last_seen = last_seen] ELSE sessions[s]]

\* db::update_session_identifier: UPDATE sessions SET identifier WHERE id
update_session_identifier(id, identifier) ==
    [s \in DOMAIN sessions |->
        IF s = id THEN [sessions[s] EXCEPT !.identifier = identifier] ELSE sessions[s]]

\* create_hit counting the insert itself as a heartbeat
create_hit_counted(input) ==
    [session_id |-> input.session_id, service_id |-> input.service_id,
     initial |-> input.initial, start_time |-> input.start_time,
     last_seen |-> input.start_time, heartbeats |-> 1, tracker |-> input.tracker,
     idempotency |-> input.idempotency, by |-> input.by,
     overlapped |-> input.overlapped]

\* create_hit marking every inserted row initial
create_hit_always_initial(input) ==
    [session_id |-> input.session_id, service_id |-> input.service_id,
     initial |-> TRUE, start_time |-> input.start_time,
     last_seen |-> input.start_time, heartbeats |-> 0, tracker |-> input.tracker,
     idempotency |-> input.idempotency, by |-> input.by,
     overlapped |-> input.overlapped]

\* db::create_hit: the inserted row (last_seen = start_time, heartbeats = 0)
create_hit(input) ==
    [session_id |-> input.session_id, service_id |-> input.service_id,
     initial |-> input.initial, start_time |-> input.start_time,
     last_seen |-> input.start_time, heartbeats |-> 0, tracker |-> input.tracker,
     idempotency |-> input.idempotency, by |-> input.by,
     overlapped |-> input.overlapped]

\* update_hit_heartbeat that restarts the hit: start_time is set as well
update_hit_heartbeat_restarted(id, last_seen) ==
    [h \in DOMAIN hits |->
        IF h = id
        THEN [hits[h] EXCEPT !.heartbeats = @ + 1, !.last_seen = last_seen,
                             !.start_time = last_seen]
        ELSE hits[h]]

\* update_hit_heartbeat advancing last_seen only
update_hit_heartbeat_last_seen_only(id, last_seen) ==
    [h \in DOMAIN hits |->
        IF h = id THEN [hits[h] EXCEPT !.last_seen = last_seen] ELSE hits[h]]

\* db::update_hit_heartbeat: UPDATE hits SET heartbeats = heartbeats + 1, last_seen
update_hit_heartbeat(id, last_seen) ==
    [h \in DOMAIN hits |->
        IF h = id
        THEN [hits[h] EXCEPT !.heartbeats = @ + 1, !.last_seen = last_seen]
        ELSE hits[h]]

\* db::recalculate_session_bounce: SELECT COUNT(*) FROM hits WHERE session_id
hit_count(session_id) == Cardinality({h \in DOMAIN hits : hits[h].session_id = session_id})

\* is_bounce with the comparison off by one
is_bounce_strict(count) == count < 1

\* db::recalculate_session_bounce: let is_bounce = hit_count <= 1
is_bounce(count) == count <= 1

\* db::recalculate_session_bounce: UPDATE sessions SET is_bounce WHERE id
set_is_bounce(id, bounce) ==
    [s \in DOMAIN sessions |->
        IF s = id THEN [sessions[s] EXCEPT !.is_bounce = bounce] ELSE sessions[s]]

(* ------------------------------ handlers ------------------------------- *)
Free(p) == task[p].pc \in {"idle", "done"}
Quiet == \A p \in Procs : Free(p)

\* a response, with the request it answers and the services row the handler read
Response(handler, code, body, tracking_id, headers, service) ==
    [n |-> started + 1, handler |-> handler, code |-> code, body |-> body,
     tracking_id |-> tracking_id, headers |-> headers, service |-> service]

\* the process_ingress future as the handler builds it (overlapped: history,
\* another invocation is in flight when this one is built)
NewTask(service, tracker, time, idempotency, ip, user_agent, identifier, tracking_id, headers) ==
    [IdleTask EXCEPT !.pc = "resolve", !.n = started + 1, !.tracker = tracker,
                     !.service = service, !.time = time, !.ip = ip,
                     !.user_agent = user_agent, !.identifier = identifier,
                     !.idempotency = idempotency, !.tracking_id = tracking_id,
                     !.headers = headers, !.overlapped = ~Quiet]

\* handlers::pixel_handler_internal: answers, and spawns process_ingress
pixel_handler_internal(p, tracking_id, identifier, headers) ==
    LET found == get_active_service_by_tracking_id(tracking_id)
        service == Unwrap(found)
        ip == IF IsSome(get_client_ip(headers))
              THEN Unwrap(get_client_ip(headers)) ELSE <<"0.0.0.0">>
    IN  /\ Free(p)
        /\ started' = started + 1
        /\ UNCHANGED <<store, caches, settings, day, now, updates, sent, lost, written>>
        /\ IF ~IsSome(found)
           THEN /\ resp' = Response("pixel", 404, "Service not found", tracking_id, headers,
                                 NoService)
                /\ task' = [task EXCEPT ![p] = IdleTask]
           ELSE IF ~validate_origin(headers, service)[2]
           THEN /\ resp' = Response("pixel", 403, "Invalid origin", tracking_id, headers,
                                 service)
                /\ task' = [task EXCEPT ![p] = IdleTask]
           ELSE IF is_dnt_enabled(headers) /\ service.respect_dnt
           THEN /\ resp' = Response("pixel", 200, "gif", tracking_id, headers, service)
                /\ task' = [task EXCEPT ![p] = IdleTask]
           ELSE IF is_ip_ignored(ip, get_ignored_networks(service))
           THEN /\ resp' = Response("pixel", 200, "gif", tracking_id, headers, service)
                /\ task' = [task EXCEPT ![p] = IdleTask]
           ELSE /\ resp' = Response("pixel", 200, "gif", tracking_id, headers, service)
                /\ task' = [task EXCEPT ![p] =
                       NewTask(service, Pixel, 0, NoKey, ip,
                               get_user_agent(headers), identifier, tracking_id,
                               headers)]

\* handlers::script_post_handler_internal up to its call of process_ingress
script_post_handler_internal(p, tracking_id, identifier, headers, payload) ==
    LET found == get_active_service_by_tracking_id(tracking_id)
        service == Unwrap(found)
        ip == IF IsSome(get_client_ip(headers))
              THEN Unwrap(get_client_ip(headers)) ELSE <<"0.0.0.0">>
    IN  /\ Free(p)
        /\ started' = started + 1
        /\ UNCHANGED <<store, caches, settings, day, now, updates, sent, lost, written>>
        /\ IF ~IsSome(found)
           THEN /\ resp' = Response("script_post", 404, "Service not found", tracking_id, headers,
                                 NoService)
                /\ task' = [task EXCEPT ![p] = IdleTask]
           ELSE IF ~validate_origin(headers, service)[2]
           THEN /\ resp' = Response("script_post", 403, "Invalid origin", tracking_id, headers,
                                 service)
                /\ task' = [task EXCEPT ![p] = IdleTask]
           ELSE IF is_dnt_enabled(headers) /\ service.respect_dnt
           THEN /\ resp' = Response("script_post", 200, "json", tracking_id, headers, service)
                /\ task' = [task EXCEPT ![p] = IdleTask]
           ELSE IF is_ip_ignored(ip, get_ignored_networks(service))
           THEN /\ resp' = Response("script_post", 200, "json", tracking_id, headers, service)
                /\ task' = [task EXCEPT ![p] = IdleTask]
           ELSE /\ resp' = NoResp
                /\ task' = [task EXCEPT ![p] =
                       NewTask(service, Js, now, payload.idempotency, ip,
                               get_user_agent(headers), identifier, tracking_id,
                               headers)]

\* cache::get_or_insert_script_inject with f = Some(service.script_inject)
get_or_insert_script_inject(service_id, script) ==
    IF service_id \in DOMAIN script_inject
    THEN script_inject
    ELSE (service_id :> script) @@ script_inject

\* handlers::script_get_handler_internal
script_get_handler_internal(tracking_id, identifier, headers) ==
    LET found == get_active_service_by_tracking_id(tracking_id)
        service == Unwrap(found)
    IN  /\ started' = started + 1
        /\ UNCHANGED <<store, service_origins, session_associations, hit_idempotency,
                       settings, day, now, task, updates, sent, lost, written>>
        /\ IF ~IsSome(found)
           THEN /\ resp' = Response("script_get", 404, "Service not found", tracking_id, headers,
                                 NoService)
                /\ UNCHANGED script_inject
           ELSE IF ~validate_origin(headers, service)[2]
           THEN /\ resp' = Response("script_get", 403, "Invalid origin", tracking_id, headers,
                                 service)
                /\ UNCHANGED script_inject
           ELSE /\ script_inject' =
                       get_or_insert_script_inject(service.id, service.script_inject)
                /\ resp' = Response("script_get", 200,
                       IF is_dnt_enabled(headers) /\ service.respect_dnt
                       THEN "script dnt" ELSE "script", tracking_id, headers, service)

\* handlers::script_post_handler_internal after process_ingress returned:
\* an Err is logged, and json_response is returned either way
Respond(p) ==
    /\ task[p].pc = "respond"
    /\ resp' = [n |-> task[p].n, handler |-> "script_post", code |-> 200,
                body |-> "json", tracking_id |-> task[p].tracking_id,
                headers |-> task[p].headers, service |-> task[p].service]
    /\ task' = [task EXCEPT ![p].pc = "done"]
    /\ UNCHANGED <<store, caches, settings, day, now, started, updates, sent, lost, written>>

(* ------------------------------ process_ingress ------------------------ *)
\* a Return that hands every task back to a handler that waits for it
Return_to_handler(t, outcome) == [t EXCEPT !.pc = "respond", !.outcome = outcome]

\* where a task goes when process_ingress returns: the POST handler still
\* has to answer, the spawned pixel task just ends
Return(t, outcome) ==
    [t EXCEPT !.pc = IF t.tracker = Js THEN "respond" ELSE "done", !.outcome = outcome]

Frame == UNCHANGED <<services, next_session, next_hit, service_origins, script_inject,
                     settings, day, now, resp, started, updates, lost, written>>

\* likewise for a step that inserts a cache entry at the time now
Insert(key) ==
    /\ written' = (key :> now) @@ written
    /\ UNCHANGED <<services, next_session, next_hit, service_origins, script_inject,
                   settings, day, now, resp, started, updates, lost>>

\* processor.rs 38-89: the hash, get_session_association and, on a miss, the
\* robot filter.  The spawned pixel task evaluates Utc::now() here.
get_session_association(p) ==
    LET t == task[p]
        time == IF t.tracker = Pixel THEN now ELSE t.time
        hash == compute(t.ip, t.user_agent, t.service.id,
                        settings.aggressive_hash_salting, day)
        key  == cache_key(t.service.id, hash)
        u    == [t EXCEPT !.time = time, !.cache_key = key]
    IN  /\ t.pc = "resolve"
        /\ task' = [task EXCEPT ![p] =
              IF key \in DOMAIN session_associations
              THEN [u EXCEPT !.pc = "touch_session_association",
                             !.session_id = session_associations[key],
                             !.initial = FALSE]
              ELSE IF parse_user_agent(t.user_agent) = Robot /\ t.service.ignore_robots
                   THEN Return(u, "robot")
                   ELSE [u EXCEPT !.pc = "create_session"]]
        /\ UNCHANGED <<sessions, hits, session_associations, hit_idempotency, sent>>
        /\ Frame

\* cache::touch_session_association, the get: the insert follows if an
\* entry is found
touch_session_association(p) ==
    LET t == task[p]
        present == t.cache_key \in DOMAIN session_associations
    IN  /\ t.pc = "touch_session_association"
        /\ task' = [task EXCEPT
              ![p].pc = IF present THEN "touch_session_association_insert"
                        ELSE "update_session_last_seen",
              ![p].touch = IF present THEN session_associations[t.cache_key] ELSE 0]
        /\ UNCHANGED <<sessions, hits, session_associations, hit_idempotency, sent>>
        /\ Frame

\* cache::touch_session_association, the insert of what get returned
touch_session_association_insert(p) ==
    LET t == task[p]
    IN  /\ t.pc = "touch_session_association_insert"
        /\ session_associations' = (t.cache_key :> t.touch) @@ session_associations
        /\ task' = [task EXCEPT ![p].pc = "update_session_last_seen", ![p].wrote = TRUE]
        /\ UNCHANGED <<sessions, hits, hit_idempotency, sent>>
        /\ Insert(t.cache_key)

\* processor.rs 62: db::update_session_last_seen(session_id, time)
UpdateSessionLastSeen(p) ==
    LET t == task[p]
    IN  /\ t.pc = "update_session_last_seen"
        /\ sessions' = update_session_last_seen(t.session_id, t.time)
        /\ task' = [task EXCEPT ![p].pc = IF t.identifier # <<>>
                                          THEN "get_session" ELSE "hit_resolve",
                                ![p].wrote = TRUE]
        /\ UNCHANGED <<hits, session_associations, hit_idempotency, sent>>
        /\ Frame

\* processor.rs 66-67: db::get_session, SessionNotFound when the row is gone
GetSession(p) ==
    LET t == task[p]
    IN  /\ t.pc = "get_session"
        /\ task' = [task EXCEPT ![p] =
              IF t.session_id \notin DOMAIN sessions
              THEN Return(t, "error")
              ELSE IF sessions[t.session_id].identifier = <<>>
                   THEN [t EXCEPT !.pc = "update_session_identifier"]
                   ELSE [t EXCEPT !.pc = "hit_resolve"]]
        /\ UNCHANGED <<sessions, hits, session_associations, hit_idempotency, sent>>
        /\ Frame

\* processor.rs 68: db::update_session_identifier(session_id, identifier)
UpdateSessionIdentifier(p) ==
    LET t == task[p]
    IN  /\ t.pc = "update_session_identifier"
        /\ sessions' = update_session_identifier(t.session_id, t.identifier)
        /\ task' = [task EXCEPT ![p].pc = "hit_resolve", ![p].wrote = TRUE]
        /\ UNCHANGED <<hits, session_associations, hit_idempotency, sent>>
        /\ Frame

\* stored_ip that looks at the service's collect_ips alone
stored_ip_collect_only(service, config, ip) ==
    IF service.collect_ips THEN Some(ip) ELSE None

\* processor.rs 91-96: the IP to store
stored_ip(service, config, ip) ==
    IF service.collect_ips /\ ~config.block_all_ips THEN Some(ip) ELSE None

\* processor.rs 99-118: db::create_session; the insert fails on the foreign
\* key when the service row is gone
CreateSession(p) ==
    LET t == task[p]
        row == create_session([service_id |-> t.service.id,
                               ip |-> stored_ip(t.service, settings, t.ip),
                               identifier |-> trim(t.identifier),
                               start_time |-> t.time,
                               device_type |-> parse_user_agent(t.user_agent),
                               fingerprint |-> t.cache_key, by |-> t.n])
    IN  /\ t.pc = "create_session"
        /\ IF references(services, t.service.id)
           THEN /\ sessions' = (next_session :> row) @@ sessions
                /\ next_session' = next_session + 1
                /\ task' = [task EXCEPT ![p].pc = "set_session_association",
                                        ![p].session_id = next_session,
                                        ![p].initial = TRUE,
                                        ![p].wrote = TRUE]
           ELSE /\ task' = [task EXCEPT ![p] = Return(t, "error")]
                /\ UNCHANGED <<sessions, next_session>>
        /\ UNCHANGED <<services, hits, next_hit, caches, settings, day, now, resp,
                       started, updates, sent, lost, written>>

\* set_session_association that leaves an entry that is already there
set_session_association_if_absent(p) ==
    /\ task[p].pc = "set_session_association"
    /\ session_associations' =
          session_associations @@ (task[p].cache_key :> task[p].session_id)
    /\ task' = [task EXCEPT ![p].pc = "hit_resolve"]
    /\ UNCHANGED <<sessions, hits, hit_idempotency, sent>>
    /\ Insert(task[p].cache_key)

\* set_session_association that inserts nothing
set_session_association_skipped(p) ==
    /\ task[p].pc = "set_session_association"
    /\ task' = [task EXCEPT ![p].pc = "hit_resolve"]
    /\ UNCHANGED <<sessions, hits, session_associations, hit_idempotency, sent>>
    /\ Frame

\* processor.rs 121-124: cache::set_session_association(cache_key, session.id)
set_session_association(p) ==
    LET t == task[p]
    IN  /\ t.pc = "set_session_association"
        /\ session_associations' = (t.cache_key :> t.session_id) @@ session_associations
        /\ task' = [task EXCEPT ![p].pc = "hit_resolve"]
        /\ UNCHANGED <<sessions, hits, hit_idempotency, sent>>
        /\ Insert(t.cache_key)

Bump(bag, x) == IF x \in DOMAIN bag THEN [bag EXCEPT ![x] = @ + 1] ELSE (x :> 1) @@ bag
Count(bag, x) == IF x \in DOMAIN bag THEN bag[x] ELSE 0

\* processor.rs 131-134: the key "hit_{k}" and cache::get_hit_idempotency
get_hit_idempotency(p) ==
    LET t == task[p]
        key == idempotency_key(t.idempotency)
    IN  /\ t.pc = "hit_resolve"
        /\ task' = [task EXCEPT ![p] =
              IF t.idempotency # NoKey /\ key \in DOMAIN hit_idempotency
              THEN [t EXCEPT !.pc = "touch_hit_idempotency",
                             !.hit_id = hit_idempotency[key]]
              ELSE [t EXCEPT !.pc = "create_hit"]]
        /\ sent' = Bump(sent, <<t.cache_key, t.idempotency>>)
        /\ UNCHANGED <<sessions, hits, session_associations, hit_idempotency>>
        /\ Frame

\* cache::touch_hit_idempotency, the get: the insert follows if an entry
\* is found
touch_hit_idempotency(p) ==
    LET t == task[p]
        key == idempotency_key(t.idempotency)
        present == key \in DOMAIN hit_idempotency
    IN  /\ t.pc = "touch_hit_idempotency"
        /\ task' = [task EXCEPT
              ![p].pc = IF present THEN "touch_hit_idempotency_insert"
                        ELSE "update_hit_heartbeat",
              ![p].touch = IF present THEN hit_idempotency[key] ELSE 0]
        /\ UNCHANGED <<sessions, hits, session_associations, hit_idempotency, sent>>
        /\ Frame

\* cache::touch_hit_idempotency, the insert of what get returned
touch_hit_idempotency_insert(p) ==
    LET t == task[p]
    IN  /\ t.pc = "touch_hit_idempotency_insert"
        /\ hit_idempotency' = (idempotency_key(t.idempotency) :> t.touch) @@ hit_idempotency
        /\ task' = [task EXCEPT ![p].pc = "update_hit_heartbeat", ![p].wrote = TRUE]
        /\ UNCHANGED <<sessions, hits, session_associations, sent>>
        /\ Insert(idempotency_key(t.idempotency))

\* processor.rs 138-139: db::update_hit_heartbeat(existing_hit_id, time)
UpdateHitHeartbeat(p) ==
    LET t == task[p]
    IN  /\ t.pc = "update_hit_heartbeat"
        /\ hits' = update_hit_heartbeat(t.hit_id, t.time)
        /\ task' = [task EXCEPT ![p].pc = "set_hit_idempotency", ![p].wrote = TRUE]
        /\ UNCHANGED <<sessions, session_associations, hit_idempotency, sent>>
        /\ Frame

\* processor.rs 178-203: create_new_hit's db::create_hit; the insert fails on
\* the foreign keys when the session row or the service row is gone
CreateHit(p) ==
    LET t == task[p]
        row == create_hit([session_id |-> t.session_id, service_id |-> t.service.id,
                           initial |-> t.initial, start_time |-> t.time,
                           tracker |-> t.tracker, idempotency |-> t.idempotency,
                           by |-> t.n, overlapped |-> t.overlapped])
    IN  /\ t.pc = "create_hit"
        /\ IF references(sessions, t.session_id) /\ references(services, t.service.id)
           THEN /\ hits' = (next_hit :> row) @@ hits
                /\ next_hit' = next_hit + 1
                /\ task' = [task EXCEPT ![p].pc = "recalculate_count",
                                        ![p].hit_id = next_hit,
                                        ![p].wrote = TRUE]
           ELSE /\ task' = [task EXCEPT ![p] = Return(t, "error")]
                /\ UNCHANGED <<hits, next_hit>>
        /\ UNCHANGED <<services, sessions, next_session, caches, settings, day, now,
                       resp, started, updates, sent, lost, written>>

\* db::recalculate_session_bounce, first statement: SELECT COUNT(*)
RecalculateCount(p) ==
    LET t == task[p]
    IN  /\ t.pc = "recalculate_count"
        /\ task' = [task EXCEPT ![p].pc = "recalculate_update",
                                ![p].hit_count = hit_count(t.session_id)]
        /\ UNCHANGED <<sessions, hits, session_associations, hit_idempotency, sent>>
        /\ Frame

\* db::recalculate_session_bounce, second statement: UPDATE sessions SET is_bounce
RecalculateUpdate(p) ==
    LET t == task[p]
    IN  /\ t.pc = "recalculate_update"
        /\ sessions' = set_is_bounce(t.session_id, is_bounce(t.hit_count))
        /\ task' = [task EXCEPT ![p] =
              IF t.idempotency # NoKey
              THEN [t EXCEPT !.pc = "set_hit_idempotency"]
              ELSE Return(t, "ok")]
        /\ UNCHANGED <<hits, session_associations, hit_idempotency, sent>>
        /\ Frame

\* processor.rs 170-172: cache::set_hit_idempotency(key, hit_id)
set_hit_idempotency(p) ==
    LET t == task[p]
    IN  /\ t.pc = "set_hit_idempotency"
        /\ hit_idempotency' = (idempotency_key(t.idempotency) :> t.hit_id) @@ hit_idempotency
        /\ task' = [task EXCEPT ![p] = Return(t, "ok")]
        /\ UNCHANGED <<sessions, hits, session_associations, sent>>
        /\ Insert(idempotency_key(t.idempotency))

\* one await of one process_ingress invocation
Step(p) ==
    \/ get_session_association(p)
    \/ touch_session_association(p)
    \/ touch_session_association_insert(p)
    \/ UpdateSessionLastSeen(p)
    \/ GetSession(p)
    \/ UpdateSessionIdentifier(p)
    \/ CreateSession(p)
    \/ set_session_association(p)
    \/ get_hit_idempotency(p)
    \/ touch_hit_idempotency(p)
    \/ touch_hit_idempotency_insert(p)
    \/ UpdateHitHeartbeat(p)
    \/ CreateHit(p)
    \/ RecalculateCount(p)
    \/ RecalculateUpdate(p)
    \/ set_hit_idempotency(p)
    \/ Respond(p)

\* the clock advances
Tick ==
    /\ now < MaxTime
    /\ now' = now + 1
    /\ UNCHANGED <<store, caches, settings, day, task, resp, started, updates, sent, lost, written>>

(* ------------------------------ admin ---------------------------------- *)
\* db::update_service with the UpdateService the dashboard form builds
\* (status: None, so the stored status is kept)
update_service(id, input) ==
    [services EXCEPT ![id] =
        [@ EXCEPT !.origins = input.origins, !.respect_dnt = input.respect_dnt,
                  !.ignore_robots = input.ignore_robots,
                  !.collect_ips = input.collect_ips,
                  !.ignored_ips = IF IsSome(input.ignored_ips)
                                  THEN Unwrap(input.ignored_ips) ELSE @,
                  !.script_inject = IF IsSome(input.script_inject)
                                    THEN Unwrap(input.script_inject) ELSE @]]

\* invalidate_service that removes nothing
invalidate_service_kept(cache, service_id) == cache

\* cache::invalidate_service
invalidate_service(cache, service_id) ==
    [k \in DOMAIN cache \ {service_id} |-> cache[k]]

\* dashboard::service_update: update_service, then invalidate_service on Ok
service_update(service_id, form) ==
    /\ service_id \in DOMAIN services
    /\ services' = update_service(service_id, form)
    /\ service_origins' = invalidate_service(service_origins, service_id)
    /\ script_inject' = invalidate_service(script_inject, service_id)
    /\ updates' = updates + 1
    /\ UNCHANGED <<sessions, hits, next_session, next_hit, session_associations,
                   hit_idempotency, settings, day, now, task, resp, started, sent, lost, written>>

\* dashboard::service_delete: delete_service, then invalidate_service on Ok
service_delete(service_id) ==
    /\ services' = delete_service(service_id)
    /\ sessions' = on_delete_cascade(sessions, service_id)
    /\ hits' = on_delete_cascade(hits, service_id)
    /\ service_origins' = invalidate_service(service_origins, service_id)
    /\ script_inject' = invalidate_service(script_inject, service_id)
    /\ UNCHANGED <<next_session, next_hit, session_associations, hit_idempotency,
                   settings, day, now, task, resp, started, updates, sent, lost, written>>

(* ------------------------------ tracking-id backfill ------------------- *)
\* a services row whose tracking_id column is NULL
NullTrackingId == "null"

\* TrackingId::new(): 8 random characters, a value no other call returns;
\* the call of invocation n for the i-th row it fetched
TrackingId_new(n, i) ==
    <<<<"g11", "g12", "g13">>, <<"g21", "g22", "g23">>, <<"g31", "g32", "g33">>,
      <<"g41", "g42", "g43">>, <<"g51", "g52", "g53">>>>[n][i]

\* the rows a SELECT returns, ORDER BY id
RECURSIVE fetch_all(_)
fetch_all(ids) ==
    IF ids = {} THEN <<>>
    ELSE LET id == CHOOSE x \in ids : \A y \in ids : x <= y
         IN  <<services[id]>> \o fetch_all(ids \ {id})

\* get_service / list_services after the SELECT: each row becomes a Service,
\* one without tracking_id gets new_tracking_id
converted(rows, n) ==
    [i \in DOMAIN rows |->
        IF rows[i].tracking_id = NullTrackingId
        THEN [rows[i] EXCEPT !.tracking_id = TrackingId_new(n, i)] ELSE rows[i]]

\* the backfill_tracking_id calls still to make: (id, new_tracking_id) per
\* row fetched without tracking_id, in order
RECURSIVE needs_backfill(_, _, _)
needs_backfill(rows, n, i) ==
    IF i > Len(rows) THEN <<>>
    ELSE (IF rows[i].tracking_id = NullTrackingId
          THEN <<<<rows[i].id, TrackingId_new(n, i)>>>> ELSE <<>>)
             \o needs_backfill(rows, n, i + 1)

\* the SELECT of a read and the conversion of its rows
Fetch(p, rows) ==
    /\ Free(p)
    /\ started' = started + 1
    /\ task' = [task EXCEPT ![p] =
          [IdleTask EXCEPT !.n = started + 1,
                           !.pc = IF needs_backfill(rows, started + 1, 1) = <<>>
                                  THEN "done" ELSE "backfill_tracking_id",
                           !.outcome = "fetched",
                           !.fetched = converted(rows, started + 1),
                           !.backfills = needs_backfill(rows, started + 1, 1)]]
    /\ UNCHANGED <<store, caches, settings, day, now, resp, updates, sent, lost, written>>

\* db::get_service: SELECT ... WHERE id (ServiceNotFound for no row)
get_service(p, id) == Fetch(p, fetch_all({id} \cap DOMAIN services))

\* db::list_services: SELECT ... ORDER BY name, id
list_services(p) == Fetch(p, fetch_all(DOMAIN services))

\* backfill_tracking_id without the tracking_id IS NULL condition
backfill_tracking_id_unconditional(id, tracking_id) ==
    [s \in DOMAIN services |->
        IF s = id THEN [services[s] EXCEPT !.tracking_id = tracking_id] ELSE services[s]]

\* db::backfill_tracking_id: UPDATE services SET tracking_id = ?
\* WHERE id = ? AND tracking_id IS NULL
backfill_tracking_id(id, tracking_id) ==
    [s \in DOMAIN services |->
        IF s = id /\ services[s].tracking_id = NullTrackingId
        THEN [services[s] EXCEPT !.tracking_id = tracking_id] ELSE services[s]]

\* the next backfill_tracking_id(...).await of a read; the read returns
\* after the last one (to update_service when that made the read)
Backfill(p) ==
    LET t == task[p]
        next == Head(t.backfills)
    IN  /\ t.pc = "backfill_tracking_id"
        /\ services' = backfill_tracking_id(next[1], next[2])
        /\ task' = [task EXCEPT ![p].backfills = Tail(t.backfills),
                                ![p].pc = IF Tail(t.backfills) # <<>> THEN t.pc
                                          ELSE IF t.outcome = "updating" THEN "update_service"
                                          ELSE "done"]
        /\ UNCHANGED <<sessions, hits, next_session, next_hit, caches, settings, day, now,
                       resp, started, updates, sent, lost, written>>

\* db::update_service, its first statement: get_service(pool, id).await?
update_service_get(p, id, input) ==
    LET rows == fetch_all({id} \cap DOMAIN services)
    IN  /\ Free(p)
        /\ rows # <<>>
        /\ started' = started + 1
        /\ task' = [task EXCEPT ![p] =
              [IdleTask EXCEPT !.n = started + 1,
                               !.pc = IF needs_backfill(rows, started + 1, 1) = <<>>
                                      THEN "update_service" ELSE "backfill_tracking_id",
                               !.outcome = "updating",
                               !.fetched = converted(rows, started + 1),
                               !.backfills = needs_backfill(rows, started + 1, 1),
                               !.input = input]]
        /\ UNCHANGED <<store, caches, settings, day, now, resp, updates, sent, lost, written>>

\* db::update_service, its UPDATE: every column but id and tracking_id is
\* SET, to the input's value or (unwrap_or) to the one get_service read
update_service_set(p) ==
    LET t == task[p]
        service == t.fetched[1]
        input == t.input
    IN  /\ t.pc = "update_service"
        /\ services' =
              [s \in DOMAIN services |->
                 IF s # service.id THEN services[s]
                 ELSE [services[s] EXCEPT
                         !.origins = input.origins, !.respect_dnt = input.respect_dnt,
                         !.ignore_robots = input.ignore_robots,
                         !.collect_ips = input.collect_ips,
                         !.status = service.status,
                         !.ignored_ips = IF IsSome(input.ignored_ips)
                                         THEN Unwrap(input.ignored_ips)
                                         ELSE service.ignored_ips,
                         !.script_inject = IF IsSome(input.script_inject)
                                           THEN Unwrap(input.script_inject)
                                           ELSE service.script_inject]]
        /\ updates' = updates + 1
        /\ task' = [task EXCEPT ![p].pc = "update_service_get_service"]
        /\ UNCHANGED <<sessions, hits, next_session, next_hit, caches, settings, day, now,
                       resp, started, sent, lost, written>>

\* db::update_service, its last statement: get_service(pool, id).await, whose
\* backfill the first get_service has made unnecessary
update_service_get_service(p) ==
    LET t == task[p]
        rows == fetch_all({t.fetched[1].id} \cap DOMAIN services)
    IN  /\ t.pc = "update_service_get_service"
        /\ task' = [task EXCEPT ![p].fetched = converted(rows, t.n),
                                ![p].backfills = needs_backfill(rows, t.n, 1),
                                ![p].outcome = "fetched",
                                ![p].pc = IF needs_backfill(rows, t.n, 1) = <<>>
                                          THEN "done" ELSE "backfill_tracking_id"]
        /\ UNCHANGED <<store, caches, settings, day, now, resp, started, updates, sent, lost, written>>

(* ------------------------------ cache loss ----------------------------- *)
\* a cache without the entry of a key
invalidate(cache, key) == [k \in DOMAIN cache \ {key} |-> cache[k]]

\* moka drops an association entry: time_to_live(session_ttl) has passed
\* since its last insert, or max_capacity evicts it
expire_session_association(key) ==
    /\ key \in DOMAIN session_associations
    /\ session_associations' = invalidate(session_associations, key)
    /\ lost' = Bump(lost, key)
    /\ written' = invalidate(written, key)
    /\ UNCHANGED <<store, service_origins, script_inject, hit_idempotency, settings, day,
                   now, task, resp, started, updates, sent>>

\* moka drops an idempotency entry, likewise
expire_hit_idempotency(key) ==
    /\ key \in DOMAIN hit_idempotency
    /\ hit_idempotency' = invalidate(hit_idempotency, key)
    /\ lost' = Bump(lost, key)
    /\ written' = invalidate(written, key)
    /\ UNCHANGED <<store, service_origins, script_inject, session_associations, settings,
                   day, now, task, resp, started, updates, sent>>

(* ------------------------------ store failures ------------------------- *)
\* the positions of process_ingress at a store call (.await?)
StorePcs ==
    {"update_session_last_seen", "get_session", "update_session_identifier",
     "create_session", "update_hit_heartbeat", "create_hit", "recalculate_count",
     "recalculate_update"}

\* a store call of process_ingress returns Err: nothing is written, and the
\* ? operator returns the error to the caller
StoreFails(p) ==
    /\ task[p].pc \in StorePcs
    /\ task' = [task EXCEPT ![p] = Return(task[p], "error")]
    /\ UNCHANGED <<store, caches, settings, day, now, resp, started, updates, sent, lost, written>>

\* pixel / script POST handler whose service lookup returns an Err other
\* than ServiceNotFound
service_lookup_fails(p, handler, tracking_id, headers) ==
    /\ Free(p)
    /\ started' = started + 1
    /\ resp' = Response(handler, 500, "Internal error", tracking_id, headers, NoService)
    /\ task' = [task EXCEPT ![p] = IdleTask]
    /\ UNCHANGED <<store, caches, settings, day, now, updates, sent, lost, written>>

(* ------------------------------ requests ------------------------------- *)
Headers(origin, referer, dnt, gpc, x_real_ip, user_agent) ==
    [origin |-> origin, referer |-> referer, dnt |-> dnt, gpc |-> gpc,
     x_forwarded_for |-> None, x_real_ip |-> x_real_ip, cf_connecting_ip |-> None,
     true_client_ip |-> None, user_agent |-> user_agent]

Url(scheme, host, port) == [parses |-> TRUE, scheme |-> scheme, host |-> host, port |-> port]
Garbage == [parses |-> FALSE, scheme |-> <<>>, host |-> <<>>, port |-> <<>>]

Identifiers == {<<>>, <<"u">>}

\* requests of the resolver specifications: they pass the origin and DNT
\* checks; two of them share a fingerprint, two a service
Browser(ip) == Headers(Some(<<"h", ":", "/", "/", "a">>), None, None, None, Some(ip), "ua_firefox")

Browsers ==
    { [tracking_id |-> "t1", identifier |-> <<>>,    headers |-> Browser(<<"10.0.0.1">>)],
      [tracking_id |-> "t1", identifier |-> <<"u">>, headers |-> Browser(<<"10.0.0.1">>)],
      [tracking_id |-> "t1", identifier |-> <<>>,    headers |-> Browser(<<"10.0.0.2">>)],
      [tracking_id |-> "t2", identifier |-> <<>>,    headers |-> Browser(<<"10.0.0.1">>)] }

\* requests of the privacy-gate specification
OriginAndReferer ==
    { <<None, None>>,
      <<Some(<<"h", ":", "/", "/", "a">>), None>>,
      <<Some(<<"H", ":", "/", "/", "A">>), None>>,
      <<Some(<<"h", ":", "/", "/", "b", " ">>), None>>,
      <<Some(<<"h", ":", "/", "/", "c">>), None>>,
      <<Some(<<"h", ":", "/", "/", "c">>), Some(Url(<<"h">>, <<"a">>, <<>>))>>,
      <<Some(<<" ">>), Some(Url(<<"h">>, <<"B">>, <<>>))>>,
      <<None, Some(Url(<<"H">>, <<"A">>, <<>>))>>,
      <<None, Some(Url(<<"h">>, <<"a">>, <<":", "8">>))>>,
      <<None, Some(Url(<<"h">>, <<"c">>, <<>>))>>,
      <<None, Some(Garbage)>> }

DntAndGpc ==
    { <<None, None>>, <<Some(<<"1">>), None>>, <<None, Some(<<"1">>)>>,
      <<Some(<<"0">>), None>>, <<Some(<<" ", "1">>), Some(<<"0">>)>> }

Good == <<Some(<<"h", ":", "/", "/", "a">>), None>>
Evil == <<Some(<<"h", ":", "/", "/", "c">>), None>>
Quietly == <<None, None>>
Dnt1 == <<Some(<<"1">>), None>>

\* every origin with no DNT, every DNT with a listed origin, and the mixed cases
Visitors ==
       {Headers(o[1], o[2], Quietly[1], Quietly[2], Some(<<"10.0.0.1">>), "ua_firefox") :
           o \in OriginAndReferer}
  \cup {Headers(Good[1], Good[2], d[1], d[2], Some(<<"10.0.0.1">>), "ua_firefox") :
           d \in DntAndGpc}
  \cup {Headers(o[1], o[2], d[1], d[2], Some(<<"10.0.0.1">>), "ua_googlebot") :
           o \in {Good, Evil}, d \in {Quietly, Dnt1}}
  \cup {Headers(Evil[1], Evil[2], Dnt1[1], Dnt1[2], Some(<<"10.0.0.1">>), "ua_firefox")}

\* the tracking ids of the three services and one that no service has
GateRequests ==
       {[tracking_id |-> t, headers |-> h] : t \in {"t1", "t2"}, h \in Visitors}
  \cup {[tracking_id |-> t, headers |-> Headers(Good[1], Good[2], None, None,
                                                Some(<<"10.0.0.1">>), "ua_firefox")] :
           t \in {"t3", "tX"}}

Forms == {[origins |-> o, respect_dnt |-> d, ignore_robots |-> r, collect_ips |-> FALSE,
           ignored_ips |-> None, script_inject |-> None] :
             o \in {OriginsStar, OriginsList}, d \in BOOLEAN, r \in BOOLEAN}

(* ------------------------------ Spec: one beacon at a time -------------- *)
Pixel1 ==
    /\ Quiet /\ started < MaxBeacons
    /\ \E b \in Browsers :
          pixel_handler_internal("p1", b.tracking_id, b.identifier, b.headers)

ScriptPost1 ==
    /\ Quiet /\ started < MaxBeacons
    /\ \E b \in Browsers, k \in {NoKey, "k1", "k2"} :
          script_post_handler_internal("p1", b.tracking_id, b.identifier, b.headers,
                                       [idempotency |-> k])

Tick1 == Quiet /\ Tick

Next == Pixel1 \/ ScriptPost1 \/ Step("p1") \/ Tick1

Spec == Init /\ [][Next]_vars

(* ------------------------------ SpecGate: the privacy gate -------------- *)
GatePixel ==
    /\ Quiet /\ started < MaxGateBeacons
    /\ \E r \in GateRequests, identifier \in Identifiers :
          pixel_handler_internal("p1", r.tracking_id, identifier, r.headers)

GateScriptPost ==
    /\ Quiet /\ started < MaxGateBeacons
    /\ \E r \in GateRequests, k \in {NoKey, "k1"} :
          script_post_handler_internal("p1", r.tracking_id, <<>>, r.headers,
                                       [idempotency |-> k])

GateScriptGet ==
    /\ Quiet /\ started < MaxGateBeacons
    /\ \E r \in GateRequests :
          script_get_handler_internal(r.tracking_id, <<>>, r.headers)

GateUpdate ==
    /\ Quiet /\ updates < MaxUpdates
    /\ \E service_id \in {1, 2}, form \in Forms : service_update(service_id, form)

NextGate == GatePixel \/ GateScriptPost \/ GateScriptGet \/ GateUpdate \/ Step("p1")

SpecGate == Init /\ [][NextGate]_vars

(* ------------------------------ SpecConc: overlapping beacons ----------- *)
\* one visitor: pixel beacons without identifier, script beacons with one
FirstFree(p) == Free(p) /\ (p = "p2" => ~Free("p1"))

ConcPixel ==
    /\ started < MaxConcBeacons
    /\ \E p \in Procs :
          /\ FirstFree(p)
          /\ pixel_handler_internal(p, "t1", <<>>,
                Headers(None, None, None, None, Some(<<"10.0.0.1">>), "ua_firefox"))

ConcScriptPost ==
    /\ started < MaxConcBeacons
    /\ \E p \in Procs, k \in {NoKey, "k1"} :
          /\ FirstFree(p)
          /\ script_post_handler_internal(p, "t1", <<"u">>,
                Headers(None, None, None, None, Some(<<"10.0.0.1">>), "ua_firefox"),
                [idempotency |-> k])

ConcStep == \E p \in Procs : Step(p)

NextConc == ConcPixel \/ ConcScriptPost \/ ConcStep \/ Tick

SpecConc == Init /\ [][NextConc]_vars

(* ====================================================================== *)
(* Claims                                                                  *)
(* ====================================================================== *)
HitsOf(s) == {h \in DOMAIN hits : hits[h].session_id = s}
SessionsOf(fingerprint) == {s \in DOMAIN sessions : sessions[s].fingerprint = fingerprint}
Keys == {"k1", "k2"}
Fingerprints == {x[1] : x \in DOMAIN sent}

\* C1: when no process_ingress call is in progress (beacons handled one at a
\* time), every Session row has is_bounce = true exactly when at most one
\* Hit row carries its session_id.
C1_BounceCorrect ==
    Quiet => \A s \in DOMAIN sessions :
                sessions[s].is_bounce <=> (Cardinality(HitsOf(s)) <= 1)

\* C1 witness: a finished run in which one session has two hits and is no
\* bounce while another has one hit and is a bounce.
C1_Witness ==
    /\ Quiet
    /\ \E s \in DOMAIN sessions : Cardinality(HitsOf(s)) = 2 /\ ~sessions[s].is_bounce
    /\ \E s \in DOMAIN sessions : Cardinality(HitsOf(s)) = 1 /\ sessions[s].is_bounce

\* the fingerprints that submitted idempotency key k
Owners(k) == {f \in Fingerprints : Count(sent, <<f, k>>) > 0}

\* C2: a key submitted n = k+1 times in sequence, all from one fingerprint
\* to one service, leaves exactly one Hit row created under that key, with
\* heartbeats = n - 1, and exactly one Session for the fingerprint.
C2_Idempotency ==
    Quiet => \A k \in Keys : \A f \in Owners(k) :
        Owners(k) = {f} =>
            /\ Cardinality({h \in DOMAIN hits : hits[h].idempotency = k}) = 1
            /\ \A h \in DOMAIN hits :
                  hits[h].idempotency = k => hits[h].heartbeats = Count(sent, <<f, k>>) - 1
            /\ Cardinality(SessionsOf(f)) = 1

\* C2 witness: key k1 was submitted three times by one fingerprint only, and
\* its hit counts two heartbeats.
C2_Witness ==
    /\ Quiet
    /\ \E f \in Fingerprints :
          /\ Owners("k1") = {f}
          /\ Count(sent, <<f, "k1">>) = 3
          /\ \E h \in DOMAIN hits : hits[h].idempotency = "k1" /\ hits[h].heartbeats = 2

\* an invocation that took the heartbeat branch: its hit_id names a row that
\* another invocation inserted
IsHeartbeat(t) == t.hit_id \in DOMAIN hits /\ hits[t.hit_id].by # t.n

\* C3: the Hit whose heartbeats a beacon increments belongs to the session
\* that beacon resolved to.
C3_HeartbeatInOwnSession ==
    \A p \in Procs :
        (task[p].pc \in {"set_hit_idempotency", "respond", "done"} /\ IsHeartbeat(task[p]))
            => hits[task[p].hit_id].session_id = task[p].session_id

\* C4: the beacons without idempotency key that reached the hit resolver
\* each inserted one Hit row with heartbeats = 0: n of them from one
\* fingerprint left n such rows, all in one session.
C4_KeylessAlwaysInserts ==
    Quiet => \A f \in Fingerprints :
        LET rows == {h \in DOMAIN hits :
                        /\ hits[h].idempotency = NoKey
                        /\ sessions[hits[h].session_id].fingerprint = f}
        IN  /\ Cardinality(rows) = Count(sent, <<f, NoKey>>)
            /\ \A h \in rows : hits[h].heartbeats = 0
            /\ Cardinality({hits[h].session_id : h \in rows}) <= 1

\* C4 witness: three pixel beacons of one fingerprint left three pixel hits.
C4_Witness ==
    /\ Quiet
    /\ \E f \in Fingerprints :
          /\ Count(sent, <<f, NoKey>>) = 3
          /\ Cardinality({h \in DOMAIN hits :
                            /\ hits[h].tracker = Pixel
                            /\ sessions[hits[h].session_id].fingerprint = f}) = 3

\* the beacons of fingerprint f that reached the hit resolver
TotalSent(f) == Count(sent, <<f, NoKey>>) + Count(sent, <<f, "k1">>) + Count(sent, <<f, "k2">>)

Finished(t) == t.n > 0 /\ t.pc \in {"respond", "done"} /\ t.outcome = "ok"

C6_OneSessionPerFingerprint ==
    LET t == task["p1"]
    IN  Finished(t) =>
            /\ SessionsOf(t.cache_key) = {t.session_id}
            /\ sessions[t.session_id].last_seen = t.time
            /\ (sessions[t.session_id].by = t.n) <=> (TotalSent(t.cache_key) = 1)
            /\ t.initial <=> (TotalSent(t.cache_key) = 1)
            /\ ~IsHeartbeat(t) =>
                  /\ hits[t.hit_id].session_id = t.session_id
                  /\ hits[t.hit_id].initial <=> (TotalSent(t.cache_key) = 1)

\* C6 witness: a second page navigation: the same session with last_seen
\* advanced, two hits, no bounce, the first hit initial and the second not.
C6_Witness ==
    LET t == task["p1"]
    IN  /\ Finished(t)
        /\ TotalSent(t.cache_key) = 2
        /\ Cardinality(DOMAIN sessions) = 1
        /\ sessions[t.session_id].start_time = 0
        /\ sessions[t.session_id].last_seen = 1
        /\ ~sessions[t.session_id].is_bounce
        /\ HitsOf(t.session_id) = {1, 2}
        /\ hits[1].initial /\ ~hits[2].initial

(* ------------------------------ the privacy gate ----------------------- *)
\* this step returns a response to a beacon request
Answers == resp'.n > 0 /\ resp'.n # resp.n

\* this step changes no row and no cache entry, and leaves no
\* process_ingress invocation behind for the answered request
NoChange ==
    /\ UNCHANGED <<store, caches>>
    /\ \A p \in Procs : task'[p].n # resp'.n

\* the request carries DNT: 1 or Sec-GPC: 1
Dnt1OrGpc1(headers) == headers.dnt = Some(<<"1">>) \/ headers.gpc = Some(<<"1">>)

\* the origin of a request: the Origin header, else scheme://host[:port] of
\* the Referer, lower-cased
OriginOf(headers) ==
    IF IsSome(headers.origin) /\ trim(Unwrap(headers.origin)) # <<>>
    THEN Some(to_lowercase(trim(Unwrap(headers.origin))))
    ELSE IF IsSome(headers.referer) /\ Unwrap(headers.referer).parses
         THEN LET url == Unwrap(headers.referer)
              IN  Some(to_lowercase(url.scheme \o <<":", "/", "/">> \o url.host \o url.port))
         ELSE None

\* the origin check as stated: "*" admits everything, a list admits the
\* origins equal to one of its comma-separated entries, letter case aside
Admits(origins, headers) ==
    \/ origins = <<"*">>
    \/ /\ IsSome(OriginOf(headers))
       /\ \E e \in Range(split_comma(origins)) :
             to_lowercase(trim(e)) = to_lowercase(Unwrap(OriginOf(headers)))

\* C7: a pixel or script-POST request with DNT: 1 or Sec-GPC: 1 to a service
\* with respect_dnt = true changes no row and no cache entry and starts no
\* processing; once past the origin check it is answered 200 with the GIF
\* (pixel) or the JSON status (script POST).
C7_DntNoPersistence ==
    [][(/\ Answers
        /\ resp'.handler \in {"pixel", "script_post"}
        /\ Dnt1OrGpc1(resp'.headers)
        /\ resp'.service.respect_dnt)
       => /\ NoChange
          /\ Admits(resp'.service.origins, resp'.headers) =>
                /\ resp'.code = 200
                /\ resp'.body = IF resp'.handler = "pixel" THEN "gif" ELSE "json"]_vars

\* C7 witness: a script POST with Sec-GPC: 1 and a pixel with DNT: 1 were
\* answered 200 by a service that respects DNT, and the store is empty.
C7_Witness ==
    /\ resp.code = 200 /\ resp.handler = "script_post"
    /\ resp.headers.gpc = Some(<<"1">>) /\ resp.headers.dnt = None
    /\ resp.service.respect_dnt
    /\ started = 2
    /\ sessions = EmptyMap /\ hits = EmptyMap
    /\ session_associations = EmptyMap /\ hit_idempotency = EmptyMap

\* C8: a found service answers 403 exactly to the requests its origins do
\* not admit ("*" admits all; a list admits the origins that equal one of
\* its entries case-insensitively; neither Origin nor Referer is rejected),
\* and a 403 says "Invalid origin" and changes no row and no cache entry.
C8_OriginCheck ==
    [][(Answers /\ resp'.service.id # 0)
       => /\ (resp'.code = 403) <=> ~Admits(resp'.service.origins, resp'.headers)
          /\ resp'.code = 403 => (resp'.body = "Invalid origin" /\ NoChange)]_vars

\* C8 witness: a request with neither Origin nor Referer was rejected by
\* the service with a list, after a request whose Origin differs from an
\* entry in letter case only was admitted and stored.
C8_Witness ==
    /\ resp.code = 403
    /\ resp.service.origins = OriginsList
    /\ resp.headers.origin = None /\ resp.headers.referer = None
    /\ \E s \in DOMAIN sessions : sessions[s].service_id = resp.service.id

\* C9: a beacon is answered 404 "Service not found" exactly when no Active
\* service has its tracking id, by each of the three handlers, and the 404
\* changes no row and no cache entry.
C9_OnlyActive ==
    [][Answers
       => /\ (resp'.code = 404) <=>
                ~\E id \in DOMAIN services :
                    /\ services[id].tracking_id = resp'.tracking_id
                    /\ services[id].status = Active
          /\ resp'.code = 404 => (resp'.body = "Service not found" /\ NoChange)]_vars

\* C9 witness: the script GET for the tracking id of the archived service
\* was answered 404 after a beacon of an active service was stored.
C9_Witness ==
    /\ resp.code = 404 /\ resp.handler = "script_get"
    /\ resp.tracking_id = "t3"
    /\ Cardinality(DOMAIN hits) = 1

\* C10: a beacon whose user agent parses to Robot, sent to a service that
\* has ignore_robots = true when the beacon arrives, writes no row and no
\* cache entry.
C10_RobotsIgnored ==
    \A p \in Procs :
        (/\ task[p].n > 0
         /\ parse_user_agent(task[p].user_agent) = Robot
         /\ task[p].service.ignore_robots)
            => ~task[p].wrote

(* ------------------------------ SpecIp: client addresses ---------------- *)
\* beacons started in one run of the client-address specification
MaxIpBeacons == 2

\* ignored_ips values: empty, blank, one network, an unparsable element before
\* a host address, a prefix too long before a network, an IPv6 network
IgnoredLists ==
    { <<>>,
      <<" ">>,
      <<"10.0.0.0", "/", "31">>,
      <<"bogus", ",", " ", "10.0.0.2">>,
      <<"10.0.0.0", "/", "33", ",", "10.0.0.0", "/", "8", " ">>,
      <<"::", "/", "0">> }

IpHeaders(x_forwarded_for, x_real_ip, cf_connecting_ip, true_client_ip) ==
    [NoHeaders EXCEPT !.x_forwarded_for = x_forwarded_for, !.x_real_ip = x_real_ip,
                      !.cf_connecting_ip = cf_connecting_ip,
                      !.true_client_ip = true_client_ip, !.user_agent = "ua_firefox"]

\* no address header; a proxy chain; a blank or empty first element that
\* falls through to a later header; an address that does not parse; IPv6
Clients ==
    { IpHeaders(None, None, None, None),
      IpHeaders(Some(<<" ", "10.0.0.1", ",", "10.9.0.1">>), Some(<<"10.0.0.2">>), None, None),
      IpHeaders(Some(<<" ">>), Some(<<"10.0.0.2", " ">>), Some(<<"10.0.0.1">>), None),
      IpHeaders(Some(<<",", "10.0.0.1">>), None, Some(<<"10.9.0.1">>), Some(<<"10.0.0.1">>)),
      IpHeaders(None, None, Some(<<"not-an-ip">>), None),
      IpHeaders(None, Some(<<>>), None, Some(<<"::1">>)) }

InitIp ==
    /\ \E collect_ips \in BOOLEAN, ignored_ips \in IgnoredLists :
          services = (1 :> [ServiceRow(1, "t1", Active, OriginsStar, FALSE, FALSE)
                               EXCEPT !.collect_ips = collect_ips,
                                      !.ignored_ips = ignored_ips])
    /\ \E block_all_ips \in BOOLEAN :
          settings = [aggressive_hash_salting |-> FALSE, block_all_ips |-> block_all_ips]
    /\ Boot

IpPixel ==
    /\ Quiet /\ started < MaxIpBeacons
    /\ \E headers \in Clients : pixel_handler_internal("p1", "t1", <<>>, headers)

IpScriptPost ==
    /\ Quiet /\ started < MaxIpBeacons
    /\ \E headers \in Clients, identifier \in Identifiers, k \in {NoKey, "k1"} :
          script_post_handler_internal("p1", "t1", identifier, headers, [idempotency |-> k])

NextIp == IpPixel \/ IpScriptPost \/ Step("p1")

SpecIp == InitIp /\ [][NextIp]_vars

(* ------------------------------ claims: client addresses ---------------- *)
\* the address a network element of a list contains, element by element
Within ==
    { <<<<"10.0.0.0">>, <<"10.0.0.0", "/", "31">>>>,
      <<<<"10.0.0.1">>, <<"10.0.0.0", "/", "31">>>>,
      <<<<"10.0.0.2">>, <<"10.0.0.2">>>>,
      <<<<"10.0.0.0">>, <<"10.0.0.0", "/", "8">>>>,
      <<<<"10.0.0.1">>, <<"10.0.0.0", "/", "8">>>>,
      <<<<"10.0.0.2">>, <<"10.0.0.0", "/", "8">>>>,
      <<<<"10.9.0.1">>, <<"10.0.0.0", "/", "8">>>>,
      <<<<"::">>, <<"::", "/", "0">>>>,
      <<<<"::1">>, <<"::", "/", "0">>>> }

\* ip is an address inside at least one element of the comma-separated list
Listed(ip, ignored_ips) ==
    \E i \in DOMAIN split_comma(ignored_ips) : <<ip, trim(split_comma(ignored_ips)[i])>> \in Within

\* the client address of a request: the first non-blank address header, else 0.0.0.0
ClientIp(headers) ==
    IF IsSome(get_client_ip(headers)) THEN Unwrap(get_client_ip(headers)) ELSE <<"0.0.0.0">>

Enters == started' = started + 1

Spawned == \E p \in Procs : task'[p].n = started'

\* C11: a beacon is ignored exactly when its client address parses and lies in
\* at least one network of the service's ignored_ips that parses (an empty list
\* ignores nothing, an unparsable element leaves the other elements in force);
\* an ignored beacon is answered with the success response and changes no
\* Session, no Hit and no cache, and any other beacon goes on to the resolver.
C11_CidrIgnore ==
    [][Enters =>
          IF Spawned
          THEN \A p \in Procs :
                  task'[p].n = started' =>
                      ~Listed(ClientIp(task'[p].headers), task'[p].service.ignored_ips)
          ELSE /\ resp'.n = started'
               /\ Listed(ClientIp(resp'.headers), resp'.service.ignored_ips)
               /\ resp'.code = 200
               /\ resp'.body = IF resp'.handler = "pixel" THEN "gif" ELSE "json"
               /\ UNCHANGED <<store, caches>>]_vars

\* a beacon was stored, and the next one, from an address in a list that also
\* holds an unparsable element, was answered and ignored
C11_Witness ==
    /\ resp.n = 2 /\ resp.code = 200 /\ \A p \in Procs : task[p].n # 2
    /\ Listed(ClientIp(resp.headers), resp.service.ignored_ips)
    /\ \E i \in DOMAIN split_comma(resp.service.ignored_ips) :
          ~IsSome(parse_network(trim(split_comma(resp.service.ignored_ips)[i])))
    /\ Cardinality(DOMAIN sessions) = 1

\* C12: a Session row is created with ip = None unless the service's
\* collect_ips is true and settings.block_all_ips is false; then its ip is the
\* client address of the request; and the ip of a row never changes.
C12_StoredIp ==
    [][/\ \A p \in Procs :
             task[p].pc = "create_session" /\ next_session' # next_session =>
                 sessions'[next_session].ip =
                     IF task[p].service.collect_ips /\ ~settings.block_all_ips
                     THEN Some(ClientIp(task[p].headers)) ELSE None
       /\ \A s \in DOMAIN sessions : s \in DOMAIN sessions' => sessions'[s].ip = sessions[s].ip]_vars

\* two sessions of a collecting service: one address fell through to X-Real-IP,
\* the other is the default of a request without address header
C12_Witness ==
    /\ \E s \in DOMAIN sessions : sessions[s].ip = Some(<<"10.0.0.2">>)
    /\ \E s \in DOMAIN sessions : sessions[s].ip = Some(<<"0.0.0.0">>)

\* a service that collects, under block_all_ips: the row has no ip
C12_WitnessBlocked ==
    /\ settings.block_all_ips /\ services[1].collect_ips
    /\ \E s \in DOMAIN sessions : sessions[s].ip = None

(* ------------------------------ SpecDel: services deleted --------------- *)
\* beacons started in one run of the deletion specification
MaxDelBeacons == 2

\* one visitor and two services; a service is deleted at any point of a task
DelPixel ==
    /\ started < MaxDelBeacons
    /\ \E p \in Procs, t \in {"t1", "t2"} :
          /\ FirstFree(p)
          /\ pixel_handler_internal(p, t, <<>>, Browser(<<"10.0.0.1">>))

DelScriptPost ==
    /\ started < MaxDelBeacons
    /\ \E p \in Procs, t \in {"t1", "t2"}, k \in {NoKey, "k1"} :
          /\ FirstFree(p)
          /\ script_post_handler_internal(p, t, <<"u">>, Browser(<<"10.0.0.1">>),
                                          [idempotency |-> k])

DelDelete == \E service_id \in {1, 2} : service_id \in DOMAIN services /\ service_delete(service_id)

NextDel == DelPixel \/ DelScriptPost \/ ConcStep \/ DelDelete

SpecDel == Init /\ [][NextDel]_vars

\* C13: in every reachable state, whatever the interleaving of beacons, spawned
\* pixel tasks and service deletions, every Hit's session_id is an existing
\* Session, every Session's service_id is an existing Service, and a Hit's
\* service_id is the service_id of its Session.
C13_Referential ==
    /\ \A h \in DOMAIN hits :
          /\ hits[h].session_id \in DOMAIN sessions
          /\ hits[h].service_id = sessions[hits[h].session_id].service_id
    /\ \A s \in DOMAIN sessions : sessions[s].service_id \in DOMAIN services

\* service 1 was deleted while one of its beacons was in progress: the session
\* and the hit of an earlier beacon went with it, and the beacon's insert failed
C13_Witness ==
    /\ 1 \notin DOMAIN services
    /\ \E p \in Procs : task[p].service.id = 1 /\ task[p].outcome = "error"
    /\ next_session > 1 /\ next_hit > 1
    /\ DOMAIN sessions = {} /\ DOMAIN hits = {}

\* C14: in every reachable state, also when beacons carrying different
\* timestamps are applied in another order than they were stamped, every
\* Session and every Hit has last_seen >= start_time.
C14_LastSeenNotBeforeStart ==
    /\ \A s \in DOMAIN sessions : sessions[s].last_seen >= sessions[s].start_time
    /\ \A h \in DOMAIN hits : hits[h].last_seen >= hits[h].start_time

(* ------------------------------ SpecFail: store failures ---------------- *)
\* beacons started in one run of the store-failure specification
MaxFailBeacons == 2

Visitor == Headers(None, None, None, None, Some(<<"10.0.0.1">>), "ua_firefox")

FailPixel ==
    /\ started < MaxFailBeacons
    /\ \E p \in Procs : FirstFree(p) /\ pixel_handler_internal(p, "t1", <<>>, Visitor)

FailScriptPost ==
    /\ started < MaxFailBeacons
    /\ \E p \in Procs, k \in {NoKey, "k1"} :
          /\ FirstFree(p)
          /\ script_post_handler_internal(p, "t1", <<"u">>, Visitor, [idempotency |-> k])

FailLookup ==
    /\ started < MaxFailBeacons
    /\ \E p \in Procs, handler \in {"pixel", "script_post"} :
          FirstFree(p) /\ service_lookup_fails(p, handler, "t1", Visitor)

FailStore == \E p \in Procs : StoreFails(p)

NextFail == FailPixel \/ FailScriptPost \/ FailLookup \/ FailStore \/ ConcStep

SpecFail == Init /\ [][NextFail]_vars

\* the runtime polls every task and every store or cache future completes, so
\* a task that can take its next step takes it (or fails at it)
SpecFailFair == SpecFail /\ \A p \in Procs : WF_vars(Step(p))

\* the task of the latest response
Answered(p) == task[p].n = resp.n /\ task[p].pc = "done"

\* C15: a script POST beacon during whose processing a store operation failed
\* (the failure is the task's logged outcome) is answered with HTTP 500 and
\* not with the success response.
C15_StoreFailureIs500 ==
    /\ resp.handler = "script_post" /\ resp.body = "Internal error" => resp.code = 500
    /\ \A p \in Procs :
          Answered(p) /\ task[p].tracker = Js /\ task[p].outcome = "error" =>
              resp.code = 500 /\ resp.body # "json"

\* a pixel task under way
Spawn(p) == task[p].tracker = Pixel /\ task[p].pc \notin {"idle", "done"}

\* C16: a pixel beacon that passes the service, origin, DNT and CIDR checks is
\* answered 200 with the GIF in the step that spawns its task, before any
\* write; no step of the spawned task changes the response, also when the task
\* fails; and the spawned task always runs to its end.
C16_PixelDecoupled ==
    /\ [][\A p \in Procs :
             /\ task'[p].tracker = Pixel /\ task'[p].n = started' /\ Enters =>
                   /\ resp'.n = started' /\ resp'.code = 200 /\ resp'.body = "gif"
                   /\ task'[p].pc = "resolve"
                   /\ UNCHANGED <<store, caches>>
             /\ Spawn(p) /\ task'[p] # task[p] =>
                   /\ resp' = resp
                   /\ task'[p].n = task[p].n]_vars
    /\ \A p \in Procs : Spawn(p) ~> (task[p].pc = "done")

\* the task of the answered pixel beacon failed at a store call, and the
\* response is still the 200 GIF
C16_Witness ==
    /\ resp.handler = "pixel" /\ resp.code = 200 /\ resp.body = "gif"
    /\ \E p \in Procs :
          task[p].n = resp.n /\ task[p].pc = "done" /\ task[p].outcome = "error"

(* ------------------------------ SpecEvict: cache entries lost ----------- *)
\* beacons started in one run of the cache-loss specification
MaxEvictBeacons == 3

\* two visitors of one service, one beacon at a time; an entry can be lost
\* at any point
EvictBrowsers ==
    { [identifier |-> <<>>,    headers |-> Browser(<<"10.0.0.1">>)],
      [identifier |-> <<"u">>, headers |-> Browser(<<"10.0.0.1">>)],
      [identifier |-> <<>>,    headers |-> Browser(<<"10.0.0.2">>)] }

EvictPixel ==
    /\ Quiet /\ started < MaxEvictBeacons
    /\ \E b \in EvictBrowsers : pixel_handler_internal("p1", "t1", b.identifier, b.headers)

EvictScriptPost ==
    /\ Quiet /\ started < MaxEvictBeacons
    /\ \E b \in EvictBrowsers, k \in {NoKey, "k1"} :
          script_post_handler_internal("p1", "t1", b.identifier, b.headers,
                                       [idempotency |-> k])

EvictAssociation == \E key \in DOMAIN session_associations : expire_session_association(key)

EvictIdempotency == \E key \in DOMAIN hit_idempotency : expire_hit_idempotency(key)

NextEvict == EvictPixel \/ EvictScriptPost \/ Step("p1") \/ EvictAssociation \/ EvictIdempotency

SpecEvict == Init /\ [][NextEvict]_vars

HitsWith(k) == {h \in DOMAIN hits : hits[h].idempotency = k}

\* C17 as stated: with beacons handled one at a time, the loss of a cache
\* entry makes the next beacon create no further row: a fingerprint keeps one
\* Session and an idempotency key one Hit.
C17_LossCostsNoRow ==
    /\ \A f \in Fingerprints : Cardinality(SessionsOf(f)) <= 1
    /\ \A k \in Keys : Cardinality(HitsWith(k)) <= 1

\* C17: the loss of a cache entry removes no row, and with beacons handled one
\* at a time it costs at most one row: a fingerprint has at most one Session
\* more than association entries of it were lost, and an idempotency key at
\* most one Hit more than idempotency entries of it were lost.
C17_LossCostsARow ==
    /\ Cardinality(DOMAIN sessions) = next_session - 1
    /\ Cardinality(DOMAIN hits) = next_hit - 1
    /\ \A f \in Fingerprints : Cardinality(SessionsOf(f)) <= 1 + Count(lost, f)
    /\ \A k \in Keys : Cardinality(HitsWith(k)) <= 1 + Count(lost, idempotency_key(k))

\* an association entry and an idempotency entry were lost, and the next
\* beacons of the fingerprint and of the key created a second Session and a
\* second Hit
C17_Witness ==
    /\ Quiet
    /\ \E f \in Fingerprints :
          /\ Count(lost, f) = 1 /\ f \in DOMAIN session_associations
          /\ Cardinality(SessionsOf(f)) = 2
    /\ Count(lost, idempotency_key("k1")) = 1
    /\ idempotency_key("k1") \in DOMAIN hit_idempotency
    /\ Cardinality(HitsWith("k1")) = 2

(* ------------------------------ SpecRace: racing misses ----------------- *)
\* beacons started in one run of the race specification
MaxRaceBeacons == 3

\* one visitor, two beacons in progress at a time, no entry lost
RacePixel ==
    /\ started < MaxRaceBeacons
    /\ \E p \in Procs : FirstFree(p) /\ pixel_handler_internal(p, "t1", <<>>, Visitor)

RaceScriptPost ==
    /\ started < MaxRaceBeacons
    /\ \E p \in Procs, k \in {NoKey, "k1"} :
          /\ FirstFree(p)
          /\ script_post_handler_internal(p, "t1", <<"u">>, Visitor, [idempotency |-> k])

NextRace == RacePixel \/ RaceScriptPost \/ ConcStep

SpecRace == Init /\ [][NextRace]_vars

\* a finished beacon that began when no other was in progress, after an
\* earlier beacon had created a session of its fingerprint
Later(p) ==
    /\ task[p].pc = "done" /\ task[p].outcome = "ok" /\ ~task[p].overlapped
    /\ \E s \in SessionsOf(task[p].cache_key) : sessions[s].by < task[p].n

\* C18: beacons of one fingerprint that miss the association cache together
\* may each create a Session; every insert into the cache replaces the entry,
\* so once all beacons have completed the cache maps the fingerprint to one of
\* the created sessions, the one inserted last; and a later beacon of the
\* fingerprint binds to the cached session and creates no Session.
C18_RaceSettles ==
    /\ [](Quiet => \A f \in Fingerprints :
                      /\ f \in DOMAIN session_associations
                      /\ session_associations[f] \in SessionsOf(f))
    /\ [](\A p \in Procs :
             Later(p) =>
                 /\ sessions[task[p].session_id].by < task[p].n
                 /\ Quiet => task[p].session_id = session_associations[task[p].cache_key])
    /\ [][\A p \in Procs :
             task[p].pc = "set_session_association" /\ task'[p].pc # task[p].pc =>
                 session_associations'[task[p].cache_key] = task[p].session_id]_vars

\* two beacons missed together and each created a Session; the third began
\* after both had completed and is bound to the session the cache holds
C18_Witness ==
    /\ Quiet
    /\ \E p \in Procs :
          /\ task[p].n = 3 /\ Later(p)
          /\ Cardinality(SessionsOf(task[p].cache_key)) = 2
          /\ task[p].session_id = session_associations[task[p].cache_key]

(* ------------------------------ SpecAdmin: services mutated ------------- *)
\* script requests started in one run of the administration specification
MaxAdminRequests == 2
\* service updates in one run of the administration specification
MaxAdminUpdates == 2

AdminForms ==
    {[origins |-> OriginsStar, respect_dnt |-> d, ignore_robots |-> FALSE, collect_ips |-> c,
      ignored_ips |-> i, script_inject |-> s] :
         d \in BOOLEAN, c \in BOOLEAN, i \in {None, Some(<<"10.0.0.0", "/", "8">>)},
         s \in {None, Some(<<"x">>), Some(<<"y">>)}}

AdminScriptGet ==
    /\ started < MaxAdminRequests
    /\ \E t \in {"t1", "t2"} : script_get_handler_internal(t, <<>>, Browser(<<"10.0.0.1">>))

AdminUpdate ==
    /\ updates < MaxAdminUpdates
    /\ \E service_id \in {1, 2}, form \in AdminForms : service_update(service_id, form)

AdminDelete == \E service_id \in {1, 2} : service_id \in DOMAIN services /\ service_delete(service_id)

NextAdmin == AdminScriptGet \/ AdminUpdate \/ AdminDelete

SpecAdmin == Init /\ [][NextAdmin]_vars

\* the step changes or deletes the services row id
Mutated(id) ==
    id \in DOMAIN services /\ (id \notin DOMAIN services' \/ services'[id] # services[id])

\* C19: when service_update or service_delete has changed or deleted a
\* service and returned, the service_origins and script_inject caches hold no
\* entry for that service id.
C19_MutationInvalidates ==
    [][\A id \in {1, 2, 3} :
          Mutated(id) => id \notin DOMAIN service_origins' /\ id \notin DOMAIN script_inject']_vars

\* the script of a service was served and cached, then the service was
\* updated: the row differs from the one served and the entry is gone
C19_Witness ==
    /\ resp.handler = "script_get" /\ resp.code = 200 /\ updates > 0
    /\ resp.service.id \in DOMAIN services
    /\ services[resp.service.id].script_inject # resp.service.script_inject
    /\ resp.service.id \notin DOMAIN script_inject

\* the script of a service was served and cached, then the service was deleted
C19_WitnessDeleted ==
    /\ resp.handler = "script_get" /\ resp.code = 200
    /\ resp.service.id \notin DOMAIN services
    /\ resp.service.id \notin DOMAIN script_inject

(* ------------------------------ SpecBackfill: tracking ids -------------- *)
\* reads started in one run of the backfill specification
MaxReads == 3

\* service 1 has its tracking_id, services 2 and 3 were stored without one
InitBackfill ==
    /\ services = (1 :> ServiceRow(1, "t1", Active, OriginsStar, FALSE, FALSE))
               @@ (2 :> ServiceRow(2, NullTrackingId, Active, OriginsStar, FALSE, FALSE))
               @@ (3 :> ServiceRow(3, NullTrackingId, Archived, OriginsStar, FALSE, FALSE))
    /\ settings = [aggressive_hash_salting |-> FALSE, block_all_ips |-> FALSE]
    /\ Boot

BackfillGet ==
    /\ started < MaxReads
    /\ \E p \in Procs, id \in {1, 2, 3} : FirstFree(p) /\ get_service(p, id)

BackfillList ==
    /\ started < MaxReads
    /\ \E p \in Procs : FirstFree(p) /\ list_services(p)

BackfillStep == \E p \in Procs : Backfill(p)

NextBackfill == BackfillGet \/ BackfillList \/ BackfillStep

SpecBackfill == InitBackfill /\ [][NextBackfill]_vars

\* the services a read that has returned gave its caller
Returned(p) ==
    IF task[p].pc = "done" /\ task[p].outcome = "fetched" THEN Range(task[p].fetched) ELSE {}

\* C20: for every service, also one stored without tracking_id and read by
\* concurrent calls, every get_service and list_services call that has
\* returned gave the same tracking_id, and it is the one in the store.
C20_TrackingIdStable ==
    /\ \A p \in Procs : \A s \in Returned(p) : s.tracking_id = services[s.id].tracking_id
    /\ \A p, q \in Procs : \A s \in Returned(p), r \in Returned(q) :
          s.id = r.id => s.tracking_id = r.tracking_id
(* ------------------------------ SpecWriters: backfills and updates ------ *)
\* reads and updates started in one run of the writers specification
MaxWriters == 3

WritersGet ==
    /\ started < MaxWriters
    /\ \E p \in Procs, id \in {1, 2} : FirstFree(p) /\ get_service(p, id)

WritersList ==
    /\ started < MaxWriters
    /\ \E p \in Procs : FirstFree(p) /\ list_services(p)

WritersUpdate ==
    /\ started < MaxWriters
    /\ \E p \in Procs, id \in {1, 2}, d \in BOOLEAN :
          /\ FirstFree(p)
          /\ update_service_get(p, id,
                [origins |-> OriginsStar, respect_dnt |-> d, ignore_robots |-> FALSE,
                 collect_ips |-> FALSE, ignored_ips |-> None, script_inject |-> None])

WritersStep ==
    \E p \in Procs : Backfill(p) \/ update_service_set(p) \/ update_service_get_service(p)

NextWriters == WritersGet \/ WritersList \/ WritersUpdate \/ WritersStep

SpecWriters == InitBackfill /\ [][NextWriters]_vars

\* C21: a tracking_id once persisted is never overwritten: in every step of
\* every interleaving of backfilling reads and service updates, a services
\* row whose tracking_id is not NULL keeps it, and backfill writes only rows
\* whose tracking_id is NULL.
C21_PersistedIsKept ==
    [][\A id \in DOMAIN services :
          services[id].tracking_id # NullTrackingId
             => /\ id \in DOMAIN services'
                /\ services'[id].tracking_id = services[id].tracking_id]_vars

\* a backfilling read lost the race (its conditional UPDATE matched no row)
\* and a service update went through on the same service
C21_Witness ==
    /\ services[2].tracking_id # NullTrackingId
    /\ services[2].respect_dnt
    /\ updates > 0
    /\ \E p \in Procs : /\ task[p].pc = "done"
                        /\ \E s \in Range(task[p].fetched) :
                              s.id = 2 /\ s.tracking_id # services[2].tracking_id
(* ------------------------------ SpecSalt: aggressive salting ------------ *)
\* beacons in one run of the salting specification
MaxSaltBeacons == 4
\* UTC midnights in one run of the salting specification
MaxDays == 2

\* aggressive_hash_salting = true
InitSalt ==
    /\ services = (1 :> ServiceRow(1, "t1", Active, OriginsStar, FALSE, FALSE))
               @@ (2 :> ServiceRow(2, "t2", Active, OriginsStar, FALSE, FALSE))
    /\ settings = [aggressive_hash_salting |-> TRUE, block_all_ips |-> FALSE]
    /\ Boot

\* one visitor (one ip, one user agent) of two services
SaltPixel ==
    /\ Quiet /\ started < MaxSaltBeacons
    /\ \E t \in {"t1", "t2"} :
          pixel_handler_internal("p1", t, <<>>, Browser(<<"10.0.0.1">>))

SaltScriptPost ==
    /\ Quiet /\ started < MaxSaltBeacons
    /\ \E t \in {"t1", "t2"}, k \in {NoKey, "k1"} :
          script_post_handler_internal("p1", t, <<"u">>, Browser(<<"10.0.0.1">>),
                                       [idempotency |-> k])

\* UTC midnight passes between two beacons: Utc::now() is in the next
\* calendar day (time is counted in days here)
Midnight ==
    /\ Quiet /\ day < MaxDays
    /\ day' = day + 1
    /\ now' = now + 1
    /\ UNCHANGED <<store, caches, settings, task, resp, started, updates, sent, lost, written>>

NextSalt == SaltPixel \/ SaltScriptPost \/ Step("p1") \/ Midnight

SpecSalt == InitSalt /\ [][NextSalt]_vars

\* C22: with aggressive_hash_salting = true and no cache entry ever expiring,
\* the beacons of one ip and user agent leave one Session per service and UTC
\* day: the beacons of one day reuse that day's session (equal inputs, equal
\* fingerprint), every Hit lies in a session begun on the day the hit was
\* begun (after midnight a new Session is created), sessions of different
\* services or days have different cache keys, and all of them are still
\* cached.
C22_SaltingEffect ==
    /\ now = day
    /\ \A a, b \in DOMAIN sessions :
          sessions[a].service_id = sessions[b].service_id
             /\ sessions[a].start_time = sessions[b].start_time => a = b
    /\ \A h \in DOMAIN hits :
          /\ sessions[hits[h].session_id].start_time = hits[h].start_time
          /\ sessions[hits[h].session_id].service_id = hits[h].service_id
    /\ \A a, b \in DOMAIN sessions :
          a # b => sessions[a].fingerprint # sessions[b].fingerprint
    /\ Quiet => \A a \in DOMAIN sessions :
          /\ sessions[a].fingerprint \in DOMAIN session_associations
          /\ session_associations[sessions[a].fingerprint] = a

\* the visitor has a session of each of two days in service 1, the first
\* with two hits, and one in service 2; all three are still cached
C22_Witness ==
    /\ Quiet
    /\ \E a, b, c \in DOMAIN sessions :
          /\ sessions[a].service_id = 1 /\ sessions[a].start_time = 0
          /\ sessions[b].service_id = 1 /\ sessions[b].start_time = 1
          /\ sessions[c].service_id = 2
          /\ Cardinality({h \in DOMAIN hits : hits[h].session_id = a}) = 2
          /\ {sessions[a].fingerprint, sessions[b].fingerprint, sessions[c].fingerprint}
                \subseteq DOMAIN session_associations
(* ------------------------------ SpecIdent: racing identifiers ----------- *)
\* beacons started in one run of the identifier specification
MaxIdentBeacons == 3

\* one visitor, two beacons in progress at a time; the pixel carries no
\* identifier, the script beacons carry "u" or "v"
IdentPixel ==
    /\ started < MaxIdentBeacons
    /\ \E p \in Procs : FirstFree(p) /\ pixel_handler_internal(p, "t1", <<>>, Visitor)

IdentScriptPost ==
    /\ started < MaxIdentBeacons
    /\ \E p \in Procs, identifier \in {<<"u">>, <<"v">>}, k \in {NoKey, "k1"} :
          /\ FirstFree(p)
          /\ script_post_handler_internal(p, "t1", identifier, Visitor, [idempotency |-> k])

NextIdent == IdentPixel \/ IdentScriptPost \/ ConcStep

SpecIdent == Init /\ [][NextIdent]_vars

\* C23: no beacon replaces an identifier that is stored: in every step, also
\* of two concurrent beacons that carry different identifiers for a session
\* that has none, a session whose identifier is not empty keeps it.
C23_IdentifierWrittenOnce ==
    [][\A s \in DOMAIN sessions :
          sessions[s].identifier # <<>>
             => s \in DOMAIN sessions' /\ sessions'[s].identifier = sessions[s].identifier]_vars
(* ------------------------------ SpecTtl: entries that expire ------------ *)
\* beacons in one run of the expiry specification
MaxTtlBeacons == 3
\* the time units one run of the expiry specification lasts
MaxTtlTime == 4
\* settings.session_memory_timeout_secs, in time units
session_memory_timeout_secs == 2

\* moka time_to_live: an entry is live for the timeout after its last insert
live(key, time) == time - written[key] < session_memory_timeout_secs

RECURSIVE BumpAll(_, _)
BumpAll(bag, keys) ==
    IF keys = {} THEN bag
    ELSE LET k == CHOOSE x \in keys : TRUE IN BumpAll(Bump(bag, k), keys \ {k})

\* one time unit passes: moka no longer returns the entries of both caches
\* whose time_to_live has run out
Elapse ==
    LET expired == {k \in DOMAIN written : ~live(k, now + 1)}
    IN  /\ now < MaxTtlTime
        /\ now' = now + 1
        /\ session_associations' =
              [k \in DOMAIN session_associations \ expired |-> session_associations[k]]
        /\ hit_idempotency' = [k \in DOMAIN hit_idempotency \ expired |-> hit_idempotency[k]]
        /\ written' = [k \in DOMAIN written \ expired |-> written[k]]
        /\ lost' = BumpAll(lost, expired)
        /\ UNCHANGED <<store, service_origins, script_inject, settings, day, task, resp,
                       started, updates, sent>>

\* one visitor, one beacon at a time; time passes between any two awaits
TtlPixel ==
    /\ Quiet /\ started < MaxTtlBeacons
    /\ pixel_handler_internal("p1", "t1", <<>>, Visitor)

TtlScriptPost ==
    /\ Quiet /\ started < MaxTtlBeacons
    /\ \E k \in {NoKey, "k1"} :
          script_post_handler_internal("p1", "t1", <<"u">>, Visitor, [idempotency |-> k])

NextTtl == TtlPixel \/ TtlScriptPost \/ Step("p1") \/ Elapse

SpecTtl == Init /\ [][NextTtl]_vars

\* an invocation that found its session in the association cache and is past
\* touch_session_association
TouchedAssociation(t) ==
    /\ t.n > 0 /\ t.session_id # NoSession /\ ~t.initial
    /\ t.pc \notin {"resolve", "touch_session_association", "touch_session_association_insert"}

\* an invocation that took the heartbeat branch and has returned
TouchedIdempotency(t) ==
    t.n > 0 /\ t.pc \in {"respond", "done"} /\ t.outcome = "ok" /\ IsHeartbeat(t)

\* C24: every cache hit resets the expiry of its entry: after a beacon stamped
\* time found its session in the association cache (its hit in the idempotency
\* cache), the entry is in the cache until the timeout has elapsed since
\* then, so an entry hit at shorter intervals never expires.
C24_HitResetsExpiry ==
    \A p \in Procs :
       LET t == task[p]
       IN  now < t.time + session_memory_timeout_secs =>
              /\ TouchedAssociation(t) => t.cache_key \in DOMAIN session_associations
              /\ TouchedIdempotency(t) =>
                    idempotency_key(t.idempotency) \in DOMAIN hit_idempotency
InHeartbeatBranch(t) ==
    \/ t.pc \in {"touch_hit_idempotency", "touch_hit_idempotency_insert", "update_hit_heartbeat"}
    \/ t.pc = "set_hit_idempotency" /\ IsHeartbeat(t)

\* a row without the columns a heartbeat may write
Kept(row) == [row EXCEPT !.last_seen = 0, !.heartbeats = 0]
KeptOfSession(row) == [row EXCEPT !.last_seen = 0, !.identifier = <<>>]

Hour == 3600

\* Duration::days(1)
Day == 24 * Hour

\* Duration::num_hours: whole hours, truncated toward zero
num_hours(duration) ==
    IF duration >= 0 THEN duration \div Hour ELSE 0 - ((0 - duration) \div Hour)

\* Duration::num_days: whole days, truncated toward zero
num_days(duration) ==
    IF duration >= 0 THEN duration \div Day ELSE 0 - ((0 - duration) \div Day)

\* format("%Y-%m-%d %H:00") / strftime('%Y-%m-%d %H:00'): the UTC hour an
\* instant lies in; the formatted keys sort as the hours do
hour_key(time) == time \div Hour

\* format("%Y-%m-%d") / date_naive: the UTC calendar day an instant lies in
day_key(time) == time \div Day

\* Regex::new(pattern).ok(): the pattern "(" does not compile
Regex_new(pattern) == IF pattern = <<"(">> THEN None ELSE Some(pattern)

\* Regex::is_match for a literal pattern: it occurs somewhere in the value
is_match(regex, value) ==
    \E i \in 1..Len(value) :
        /\ i + Len(regex) - 1 <= Len(value)
        /\ SubSeq(value, i, i + Len(regex) - 1) = regex

\* the handlers' hide_referrer_regex: None for an empty or an invalid pattern
hide_referrer_regex(service) ==
    IF service.hide_referrer_regex = <<>> THEN None
    ELSE Regex_new(service.hide_referrer_regex)

\* parse_url_pattern (api and dashboard): None for no, an empty or an invalid pattern
parse_url_pattern(pattern) ==
    IF IsSome(pattern) /\ Unwrap(pattern) # <<>> THEN Regex_new(Unwrap(pattern)) ELSE None

\* the time zones chrono_tz knows, by the seconds a local time there is behind UTC
Tz == ("UTC" :> 0) @@ ("America/Los_Angeles" :> 8 * Hour)

\* dashboard parse_timezone: Pacific time when missing or unknown
parse_timezone(tz_str) ==
    IF IsSome(tz_str) /\ Unwrap(tz_str) \in DOMAIN Tz THEN Unwrap(tz_str)
    ELSE "America/Los_Angeles"

\* A date string is <<"rfc3339", instant>>, <<"seconds", local seconds>>,
\* <<"minutes", local seconds, a whole minute>>, <<"date", local day>> or
\* anything else, which no format accepts.
\* api parse_datetime_string: datetime-local or date-only, read as UTC
api_parse_datetime_string(s, is_end) ==
    IF s[1] = "minutes" THEN Some(s[2])
    ELSE IF s[1] = "date"
    THEN Some(s[2] * Day + (IF is_end THEN 23 * Hour + 59 * 60 + 59 ELSE 0))
    ELSE None

\* api parse_date_range without the swap
api_parse_date_range_unswapped(query, time) ==
    LET start == IF IsSome(query.start_date)
                    /\ IsSome(api_parse_datetime_string(Unwrap(query.start_date), FALSE))
                 THEN Unwrap(api_parse_datetime_string(Unwrap(query.start_date), FALSE))
                 ELSE time - 30 * Day
        end   == IF IsSome(query.end_date)
                    /\ IsSome(api_parse_datetime_string(Unwrap(query.end_date), TRUE))
                 THEN Unwrap(api_parse_datetime_string(Unwrap(query.end_date), TRUE))
                 ELSE time
    IN  <<start, end>>

\* api parse_date_range: defaults [now - 30 days, now], swapped when start > end
api_parse_date_range(query, time) ==
    LET range == api_parse_date_range_unswapped(query, time)
    IN  IF range[1] > range[2] THEN <<range[2], range[1]>> ELSE range

\* dashboard parse_datetime_string: RFC 3339 carries its zone, the naive
\* forms are local times of tz
dashboard_parse_datetime_string(s, is_end, tz) ==
    IF s[1] = "rfc3339" THEN Some(s[2])
    ELSE IF s[1] = "seconds" \/ s[1] = "minutes" THEN Some(s[2] + Tz[tz])
    ELSE IF s[1] = "date"
    THEN Some(s[2] * Day + (IF is_end THEN 23 * Hour + 59 * 60 + 59 ELSE 0) + Tz[tz])
    ELSE None

\* dashboard parse_date_range: defaults [now - 30 days, now]; start and end
\* are returned as parsed
dashboard_parse_date_range(query, time) ==
    LET tz    == parse_timezone(query.tz)
        start == IF IsSome(query.start_date)
                    /\ IsSome(dashboard_parse_datetime_string(Unwrap(query.start_date), FALSE, tz))
                 THEN Unwrap(dashboard_parse_datetime_string(Unwrap(query.start_date), FALSE, tz))
                 ELSE time - 30 * Day
        end   == IF IsSome(query.end_date)
                    /\ IsSome(dashboard_parse_datetime_string(Unwrap(query.end_date), TRUE, tz))
                 THEN Unwrap(dashboard_parse_datetime_string(Unwrap(query.end_date), TRUE, tz))
                 ELSE time
    IN  <<start, end>>

\* WHERE service_id = ? AND start_time >= ? AND start_time < ?
in_window(row, service_id, start, end) ==
    row.service_id = service_id /\ row.start_time >= start /\ row.start_time < end

\* SELECT key, COUNT(*) ... GROUP BY key: keys holds the key of every chosen
\* row, the result the number of rows of each key
group_count(keys) ==
    [k \in Range(keys) |-> Cardinality({r \in DOMAIN keys : keys[r] = k})]

\* sort_by(|a, b| a.0.cmp(&b.0)) of the collected map: its keys, ascending
RECURSIVE sort_keys(_)
sort_keys(keys) ==
    IF keys = {} THEN <<>>
    ELSE LET k == CHOOSE x \in keys : \A y \in keys : x <= y
         IN  <<k>> \o sort_keys(keys \ {k})

\* ChartData of the collected map: labels ascending, the two series beside them
ChartData(session_counts, hit_counts, filled) ==
    LET sorted == sort_keys(DOMAIN session_counts \cup DOMAIN hit_counts \cup filled)
    IN  [labels   |-> sorted,
         sessions |-> [i \in DOMAIN sorted |-> Count(session_counts, sorted[i])],
         hits     |-> [i \in DOMAIN sorted |-> Count(hit_counts, sorted[i])]]

\* a chart function's result; panic: the call did not return
Chart(panic, chart_data, tooltip, granularity) ==
    [panic |-> panic, chart_data |-> chart_data, chart_tooltip_format |-> tooltip,
     chart_granularity |-> granularity]

NoChart == Chart(TRUE, ChartData(EmptyMap, EmptyMap, {}), "", "")

\* "Fill in missing hours": the hours of start + i hours, i < hours, that are
\* not after now
filled_hours(start, end, time) ==
    {hour_key(start + i * Hour) :
        i \in {j \in 0..(num_hours(end - start)) : start + j * Hour <= time}}

\* "Fill in missing days": the days of start + i days, i < days, that are not
\* after today
filled_days(start, end, time) ==
    {day_key(start + i * Day) :
        i \in {j \in 0..(num_days(end - start)) : day_key(start + j * Day) <= day_key(time)}}

\* ((end - start).num_hours() + 1) as usize of a negative number is above
\* 2^63: the loop runs until start + Duration::hours(i) leaves the range of
\* DateTime, where the addition panics
hours_wrap(start, end) == num_hours(end - start) + 1 < 0

\* db::get_hourly_chart_data
get_hourly_chart_data(service_id, start, end, time) ==
    IF hours_wrap(start, end) THEN NoChart
    ELSE Chart(FALSE,
               ChartData(
                   group_count([r \in {x \in DOMAIN sessions : in_window(sessions[x], service_id, start, end)} |->
                              hour_key(sessions[r].start_time)]),
                   group_count([r \in {x \in DOMAIN hits : in_window(hits[x], service_id, start, end)} |->
                              hour_key(hits[r].start_time)]),
                   filled_hours(start, end, time)),
               "MM/dd HH:mm", "hourly")

\* get_daily_chart_data that leaves the days without rows out
get_daily_chart_data_unfilled(service_id, start, end, time) ==
    Chart(FALSE,
          ChartData(
              group_count([r \in {x \in DOMAIN sessions : in_window(sessions[x], service_id, start, end)} |->
                              day_key(sessions[r].start_time)]),
              group_count([r \in {x \in DOMAIN hits : in_window(hits[x], service_id, start, end)} |->
                              day_key(hits[r].start_time)]),
              {}),
          "MMM d", "daily")

\* db::get_daily_chart_data
get_daily_chart_data(service_id, start, end, time) ==
    Chart(FALSE,
          ChartData(
              group_count([r \in {x \in DOMAIN sessions : in_window(sessions[x], service_id, start, end)} |->
                              day_key(sessions[r].start_time)]),
              group_count([r \in {x \in DOMAIN hits : in_window(hits[x], service_id, start, end)} |->
                              day_key(hits[r].start_time)]),
              filled_days(start, end, time)),
          "MMM d", "daily")

\* get_chart_data that is hourly up to and including 3 whole days
get_chart_data_upto_3_days(service_id, start, end, time) ==
    IF num_days(end - start) <= 3
    THEN get_hourly_chart_data(service_id, start, end, time)
    ELSE get_daily_chart_data(service_id, start, end, time)

\* db::get_chart_data: hourly when the window has fewer than 3 whole days
get_chart_data(service_id, start, end, time) ==
    IF num_days(end - start) < 3
    THEN get_hourly_chart_data(service_id, start, end, time)
    ELSE get_daily_chart_data(service_id, start, end, time)

\* db::get_chart_data_filtered_sync: hits per bucket from hit_times (the
\* start times, by hit), session_count / buckets with data in each of those
get_chart_data_filtered_sync(start, end, time, hit_times, session_count) ==
    LET hourly == num_days(end - start) < 3
        data   == IF hourly
                  THEN group_count([r \in DOMAIN hit_times |-> hour_key(hit_times[r])])
                  ELSE group_count([r \in DOMAIN hit_times |-> day_key(hit_times[r])])
        with_data == IF Cardinality(DOMAIN data) > 1 THEN Cardinality(DOMAIN data) ELSE 1
        distributed == [k \in DOMAIN data |-> session_count \div with_data]
    IN  IF hourly
        THEN IF hours_wrap(start, end) THEN NoChart
             ELSE Chart(FALSE, ChartData(distributed, data, filled_hours(start, end, time)),
                        "MM/dd HH:mm", "hourly")
        ELSE Chart(FALSE, ChartData(distributed, data, filled_days(start, end, time)),
                   "MMM d", "daily")

\* db::RESULTS_LIMIT (300 in the source), scaled down so that a window can
\* hold more distinct values than the limit
RESULTS_LIMIT == 2

\* the place of x in a sequence without repetitions
Position(seq, x) == CHOOSE i \in DOMAIN seq : seq[i] = x

\* ORDER BY count DESC / sort_by(|a, b| b.count.cmp(&a.count)): CountedItems by
\* falling count; values of equal count come in an order the code does not
\* fix, here the order of tie
RECURSIVE order_by_count_desc(_, _)
order_by_count_desc(counts, tie) ==
    IF DOMAIN counts = {} THEN <<>>
    ELSE LET v == CHOOSE x \in DOMAIN counts : \A y \in DOMAIN counts :
                      \/ counts[x] > counts[y]
                      \/ counts[x] = counts[y] /\ Position(tie, x) <= Position(tie, y)
         IN  <<[value |-> v, count |-> counts[v]]>>
                 \o order_by_count_desc([k \in DOMAIN counts \ {v} |-> counts[k]], tie)

\* LIMIT ? / Vec::truncate
truncate(list, limit) == SubSeq(list, 1, IF Len(list) < limit THEN Len(list) ELSE limit)

\* referrers.retain(|r| !regex.is_match(&r.value)), when there is a regex
retain(list, regex) ==
    IF IsSome(regex)
    THEN SelectSeq(list, LAMBDA r : ~is_match(Unwrap(regex), r.value))
    ELSE list

\* db::get_counted_field_initial for hits.referrer: the initial hits of the
\* window by referrer, ORDER BY count DESC LIMIT limit
get_counted_field_initial(service_id, start, end, limit, tie) ==
    truncate(
        order_by_count_desc(
            group_count([r \in {x \in DOMAIN hits :
                             in_window(hits[x], service_id, start, end) /\ hits[x].initial} |->
                            hits[r].referrer]),
            tie),
        limit)

\* CoreStats, the fields of it these properties are about
CoreStats(chart, session_count, hits_count, referrers) ==
    [panic |-> chart.panic, session_count |-> session_count, hit_count |-> hits_count,
     referrers |-> referrers, chart_data |-> chart.chart_data,
     chart_tooltip_format |-> chart.chart_tooltip_format,
     chart_granularity |-> chart.chart_granularity, compare |-> None]

\* db::get_relative_stats_with_url_filter: the hits of the window whose
\* location matches, aggregated in memory
get_relative_stats_with_url_filter(service_id, start, end, hide, url_pattern, time, tie) ==
    LET filtered_hits == {r \in DOMAIN hits :
                             /\ in_window(hits[r], service_id, start, end)
                             /\ is_match(url_pattern, hits[r].location)}
        matching_session_ids == {hits[r].session_id : r \in filtered_hits}
        session_count == Cardinality(matching_session_ids)
        counted == order_by_count_desc(
                       group_count([r \in {x \in filtered_hits : hits[x].initial} |->
                                       hits[r].referrer]),
                       tie)
    IN  CoreStats(get_chart_data_filtered_sync(start, end, time,
                      [r \in filtered_hits |-> hits[r].start_time], session_count),
                  session_count, Cardinality(filtered_hits),
                  truncate(retain(counted, hide), RESULTS_LIMIT))

\* db::get_relative_stats: the SQL aggregates of the window, or the
\* in-memory ones when there is a URL pattern
get_relative_stats(service_id, start, end, hide, url_pattern, time, tie) ==
    IF IsSome(url_pattern)
    THEN get_relative_stats_with_url_filter(service_id, start, end, hide,
                                            Unwrap(url_pattern), time, tie)
    ELSE CoreStats(get_chart_data(service_id, start, end, time),
                   Cardinality({r \in DOMAIN sessions :
                                   in_window(sessions[r], service_id, start, end)}),
                   Cardinality({r \in DOMAIN hits :
                                   in_window(hits[r], service_id, start, end)}),
                   retain(get_counted_field_initial(service_id, start, end,
                                                    RESULTS_LIMIT, tie),
                          hide))

\* get_core_stats comparing with the window that ends where the main one ends
get_core_stats_same_end(service_id, start, end, hide, url_pattern, time, tie) ==
    LET main_stats    == get_relative_stats(service_id, start, end, hide, url_pattern,
                                            time, tie)
        compare_stats == get_relative_stats(service_id, start - (end - start), end, hide,
                                            url_pattern, time, tie)
    IN  IF main_stats.panic THEN main_stats
        ELSE IF compare_stats.panic THEN compare_stats
        ELSE [main_stats EXCEPT !.compare = Some(compare_stats)]

\* db::get_core_stats: the stats of [start, end) with those of
\* [start - (end - start), start) as compare
get_core_stats(service_id, start, end, hide, url_pattern, time, tie) ==
    LET main_stats    == get_relative_stats(service_id, start, end, hide, url_pattern,
                                            time, tie)
        compare_stats == get_relative_stats(service_id, start - (end - start), start, hide,
                                            url_pattern, time, tie)
    IN  IF main_stats.panic THEN main_stats
        ELSE IF compare_stats.panic THEN compare_stats
        ELSE [main_stats EXCEPT !.compare = Some(compare_stats)]

\* a stats handler's response; start and end are history: the window it used
StatsResp(handler, code, body, request, range) ==
    [n |-> started + 1, handler |-> handler, code |-> code, body |-> body,
     tracking_id |-> "", headers |-> NoHeaders, service |-> NoService,
     request |-> request, start |-> range[1], end |-> range[2]]

\* what a stats handler leaves alone
StatsFrame ==
    /\ started' = started + 1
    /\ UNCHANGED <<services, sessions, hits, next_session, next_hit, service_origins,
                   script_inject, session_associations, hit_idempotency, settings, day,
                   now, task, updates, sent, lost, written>>

\* the handler after get_service found the service: the window, the two
\* patterns, get_core_stats, and the response (none when the call panicked)
stats_response(handler, request, range, tie) ==
    LET stats == get_core_stats(request.service_id, range[1], range[2],
                                hide_referrer_regex(services[request.service_id]),
                                parse_url_pattern(request.query.url_pattern), now, tie)
    IN  IF stats.panic THEN StatsResp(handler, 0, "panic", request, range)
        ELSE StatsResp(handler, 200, stats, request, range)

\* api::get_service_stats: GET /api/services/{id}/stats
get_service_stats(request, tie) ==
    /\ resp' = IF request.service_id \notin DOMAIN services
               THEN StatsResp("get_service_stats", 404, "Service not found", request, <<0, 0>>)
               ELSE stats_response("get_service_stats", request,
                                   api_parse_date_range(request.query, now), tie)
    /\ StatsFrame

\* dashboard::service_detail: GET /service/{id}
service_detail(request, tie) ==
    /\ resp' = IF request.service_id \notin DOMAIN services
               THEN StatsResp("service_detail", 404, "Service not found", request, <<0, 0>>)
               ELSE stats_response("service_detail", request,
                                   dashboard_parse_date_range(request.query, now), tie)
    /\ StatsFrame

(* ----------------------- statistics specification ---------------------- *)
\* stats requests in one run
MaxStatsRequests == 1

\* Utc::now() of the run: 10:30:00 on day 40
NowStats == 40 * Day + 10 * Hour + 30 * 60

\* the columns of a sessions row the queries read
StatsSession(service_id, start_time) ==
    [service_id |-> service_id, start_time |-> start_time, last_seen |-> start_time]

\* the columns of a hits row the queries read
StatsHit(session_id, service_id, initial, start_time, location, referrer) ==
    [session_id |-> session_id, service_id |-> service_id, initial |-> initial,
     start_time |-> start_time, location |-> location, referrer |-> referrer]

\* the referrers of the run, in one of the two orders ties are broken in
ReferrerPool == << <<"spam", ".example">>, <<"a">>, <<"b">>, <<"c">> >>

ReferrerPoolReversed == << <<"c">>, <<"b">>, <<"a">>, <<"spam", ".example">> >>

TieOrders == {ReferrerPool, ReferrerPoolReversed}

\* the sessions a run draws its rows from: none starts after now
SessionPool ==
    (1 :> StatsSession(1, NowStats - 10 * Day))
    @@ (2 :> StatsSession(1, NowStats - 5 * Day))
    @@ (3 :> StatsSession(1, NowStats - 2 * Day))
    @@ (4 :> StatsSession(1, NowStats - 5 * Hour))
    @@ (5 :> StatsSession(1, NowStats - 90 * 60))
    @@ (6 :> StatsSession(1, NowStats - 20 * 60))
    @@ (7 :> StatsSession(2, NowStats - Hour))

\* their hits: an initial one at the session's start, one session has a second
HitPool ==
    (1 :> StatsHit(1, 1, TRUE, NowStats - 10 * Day, <<"/x">>, ReferrerPool[1]))
    @@ (2 :> StatsHit(2, 1, TRUE, NowStats - 5 * Day, <<"/x">>, ReferrerPool[1]))
    @@ (3 :> StatsHit(2, 1, FALSE, NowStats - 5 * Day + 60, <<"/y">>, <<>>))
    @@ (4 :> StatsHit(3, 1, TRUE, NowStats - 2 * Day, <<"/x">>, ReferrerPool[2]))
    @@ (5 :> StatsHit(4, 1, TRUE, NowStats - 5 * Hour, <<"/y">>, ReferrerPool[2]))
    @@ (6 :> StatsHit(5, 1, TRUE, NowStats - 90 * 60, <<"/x">>, ReferrerPool[3]))
    @@ (7 :> StatsHit(6, 1, TRUE, NowStats - 20 * 60, <<"/x", "/z">>, ReferrerPool[4]))
    @@ (8 :> StatsHit(7, 2, TRUE, NowStats - Hour, <<"/x">>, ReferrerPool[1]))

\* a services row with its hide_referrer_regex
StatsService(id, tracking_id, pattern) ==
    [id |-> id, tracking_id |-> tracking_id, status |-> Active, origins |-> OriginsStar,
     respect_dnt |-> FALSE, ignore_robots |-> FALSE, collect_ips |-> FALSE,
     ignored_ips |-> <<>>, script_inject |-> <<>>, hide_referrer_regex |-> pattern]

\* service 1 hides the spam referrers, the pattern of service 2 does not
\* compile; the rows are any of the pool's sessions with their hits
InitStats ==
    /\ services = (1 :> StatsService(1, "t1", <<"spam">>))
               @@ (2 :> StatsService(2, "t2", <<"(">>))
    /\ settings = [aggressive_hash_salting |-> FALSE, block_all_ips |-> FALSE]
    /\ \E chosen \in SUBSET DOMAIN SessionPool :
           /\ sessions = [s \in chosen |-> SessionPool[s]]
           /\ hits = [h \in {x \in DOMAIN HitPool : HitPool[x].session_id \in chosen} |->
                         HitPool[h]]
    /\ next_session = 8
    /\ next_hit = 9
    /\ service_origins = EmptyMap
    /\ script_inject = EmptyMap
    /\ session_associations = EmptyMap
    /\ hit_idempotency = EmptyMap
    /\ day = day_key(NowStats)
    /\ now = NowStats
    /\ task = [p \in Procs |-> IdleTask]
    /\ resp = NoResp
    /\ started = 0
    /\ updates = 0
    /\ sent = EmptyMap
    /\ lost = EmptyMap
    /\ written = EmptyMap

\* startDate: missing, 7 days before now, a day 3 or 2 days back, 30 minutes
\* before now, tomorrow, or an RFC 3339 instant a day back
StartDates ==
    {None, Some(<<"minutes", NowStats - 7 * Day>>), Some(<<"date", day_key(NowStats) - 3>>),
     Some(<<"date", day_key(NowStats) - 2>>),
     Some(<<"minutes", NowStats - 30 * 60>>), Some(<<"date", day_key(NowStats) + 1>>),
     Some(<<"rfc3339", NowStats - Day>>)}

\* endDate: missing, today, an hour before now, or a day 8 days back
EndDates ==
    {None, Some(<<"date", day_key(NowStats)>>), Some(<<"minutes", NowStats - Hour>>),
     Some(<<"date", day_key(NowStats) - 8>>)}

\* the query strings of the run
DateRangeQueries ==
    [start_date : StartDates, end_date : EndDates,
     url_pattern : {None, Some(<<"/x">>)}, tz : {None, Some("UTC")}]

StatsRequests == [service_id : {1, 2, 9}, query : DateRangeQueries]

ApiStats ==
    /\ started < MaxStatsRequests
    /\ \E request \in StatsRequests, tie \in TieOrders :
           request.query.tz = None /\ get_service_stats(request, tie)

DashboardStats ==
    /\ started < MaxStatsRequests
    /\ \E request \in StatsRequests, tie \in TieOrders : service_detail(request, tie)

NextStats == ApiStats \/ DashboardStats

SpecStats == InitStats /\ [][NextStats]_vars

\* a stats handler answered 200: resp.body is a CoreStats
StatsAnswered == resp.handler \in {"get_service_stats", "service_detail"} /\ resp.code = 200

\* the rows of a window the way the mode of the request counts them
SessionsIn(start, end) ==
    IF IsSome(parse_url_pattern(resp.request.query.url_pattern))
    THEN {hits[h].session_id : h \in {x \in DOMAIN hits :
              /\ hits[x].service_id = resp.request.service_id
              /\ hits[x].start_time >= start /\ hits[x].start_time < end
              /\ is_match(Unwrap(parse_url_pattern(resp.request.query.url_pattern)),
                          hits[x].location)}}
    ELSE {s \in DOMAIN sessions :
              /\ sessions[s].service_id = resp.request.service_id
              /\ sessions[s].start_time >= start /\ sessions[s].start_time < end}

HitsIn(start, end) ==
    {h \in DOMAIN hits :
        /\ hits[h].service_id = resp.request.service_id
        /\ hits[h].start_time >= start /\ hits[h].start_time < end
        /\ IsSome(parse_url_pattern(resp.request.query.url_pattern)) =>
               is_match(Unwrap(parse_url_pattern(resp.request.query.url_pattern)),
                        hits[h].location)}

\* C26: the stats a handler returns count the rows of [start, end); their
\* compare is present, counts the rows of [start - (end - start), start), and
\* has no compare of its own, with and without a URL pattern.
C26_CompareWindow ==
    StatsAnswered =>
        /\ resp.body.session_count = Cardinality(SessionsIn(resp.start, resp.end))
        /\ resp.body.hit_count = Cardinality(HitsIn(resp.start, resp.end))
        /\ IsSome(resp.body.compare)
        /\ Unwrap(resp.body.compare).session_count
               = Cardinality(SessionsIn(resp.start - (resp.end - resp.start), resp.start))
        /\ Unwrap(resp.body.compare).hit_count
               = Cardinality(HitsIn(resp.start - (resp.end - resp.start), resp.start))
        /\ Unwrap(resp.body.compare).compare = None

\* a 7-day window with rows in it and rows in the 7 days before it, URL-filtered
C26_Witness ==
    /\ StatsAnswered
    /\ resp.end - resp.start = 7 * Day
    /\ IsSome(parse_url_pattern(resp.request.query.url_pattern))
    /\ resp.body.hit_count > 0
    /\ IsSome(resp.body.compare)
    /\ Unwrap(resp.body.compare).hit_count > 0
    /\ Unwrap(resp.body.compare).session_count > 0

\* the bucket of an instant at the granularity of a chart
ChartKey(stats, time) ==
    IF stats.chart_granularity = "hourly" THEN hour_key(time) ELSE day_key(time)

\* the chart of stats is the filled chart of the window [start, end)
ChartFilled(stats, start, end) ==
    LET chart == stats.chart_data
        n     == Len(chart.labels)
    IN  /\ \A i \in 1..(n - 1) : chart.labels[i + 1] = chart.labels[i] + 1
        /\ start <= now => n > 0 /\ chart.labels[1] = ChartKey(stats, start)
        /\ \A i \in 1..n :
               /\ ChartKey(stats, start) <= chart.labels[i]
               /\ chart.labels[i] <= ChartKey(stats, end)
               /\ chart.labels[i] <= ChartKey(stats, now)
        /\ Len(chart.sessions) = n
        /\ Len(chart.hits) = n
        /\ \A i \in 1..n :
               /\ chart.hits[i] = Cardinality({h \in HitsIn(start, end) :
                                     ChartKey(stats, hits[h].start_time) = chart.labels[i]})
               /\ chart.hits[i] = 0 => chart.sessions[i] = 0
               /\ resp.request.query.url_pattern = None =>
                      chart.sessions[i] = Cardinality({s \in SessionsIn(start, end) :
                          ChartKey(stats, sessions[s].start_time) = chart.labels[i]})

GranularityOf(stats, duration) ==
    IF duration < 3 * Day
    THEN stats.chart_granularity = "hourly" /\ stats.chart_tooltip_format = "MM/dd HH:mm"
    ELSE stats.chart_granularity = "daily" /\ stats.chart_tooltip_format = "MMM d"

\* C28: a chart is "hourly" with tooltip "MM/dd HH:mm" when end - start is
\* less than 3 days and "daily" with tooltip "MMM d" otherwise, in the main
\* and the compare stats; the chart of the 7 days that end at now is daily and
\* has 8 labels.
C28_Granularity ==
    StatsAnswered =>
        /\ GranularityOf(resp.body, resp.end - resp.start)
        /\ GranularityOf(Unwrap(resp.body.compare), resp.end - resp.start)
        /\ resp.end = now /\ resp.end - resp.start = 7 * Day =>
               /\ resp.body.chart_granularity = "daily"
               /\ Len(resp.body.chart_data.labels) = 8

\* the stats of the 7 days that end at now were returned, with rows in them
C28_Witness ==
    /\ StatsAnswered
    /\ resp.end = now
    /\ resp.end - resp.start = 7 * Day
    /\ resp.body.hit_count > 0
    /\ Len(resp.body.chart_data.labels) = 8

\* the referrers of the request's service that its hide_referrer_regex does
\* not match, with the number of initial hits of the window (whose location
\* matches the URL pattern, if there is one) that came from each
ShownReferrers(start, end) ==
    LET hide    == hide_referrer_regex(services[resp.request.service_id])
        initial == {h \in HitsIn(start, end) : hits[h].initial}
        shown   == {h \in initial : IsSome(hide) => ~is_match(Unwrap(hide), hits[h].referrer)}
    IN  [v \in {hits[h].referrer : h \in shown} |->
            Cardinality({h \in shown : hits[h].referrer = v})]

\* list is a top-N of the shown referrers of the window
TopShown(list, start, end) ==
    LET shown == ShownReferrers(start, end)
    IN  /\ \A i \in DOMAIN list :
               list[i].value \in DOMAIN shown /\ list[i].count = shown[list[i].value]
        /\ \A i, j \in DOMAIN list : i < j =>
               list[i].value # list[j].value /\ list[i].count >= list[j].count
        /\ Len(list) = IF Cardinality(DOMAIN shown) < RESULTS_LIMIT
                       THEN Cardinality(DOMAIN shown) ELSE RESULTS_LIMIT
        /\ \A v \in DOMAIN shown : \A i \in DOMAIN list : shown[v] <= list[i].count
               \/ \E j \in DOMAIN list : list[j].value = v

\* C29: the referrers of the returned stats are the (up to RESULTS_LIMIT)
\* referrers with the most initial hits in the window among those the
\* service's hide_referrer_regex does not match, with and without a URL pattern.
C29_HideBeforeTruncate ==
    StatsAnswered => TopShown(resp.body.referrers, resp.start, resp.end)

\* C30: the window a date-range handler uses has start <= end, whatever the
\* query strings, in the JSON API and in the dashboard.
C30_StartNotAfterEnd ==
    resp.handler \in {"get_service_stats", "service_detail"} => resp.start <= resp.end

(* ------------------------------ C31 .. C37 ------------------------------ *)
\* invocation p stands between its hit insert and the end of its recompute
Recomputing(p, s) ==
    /\ task[p].session_id = s
    /\ task[p].pc \in {"recalculate_count", "recalculate_update"}

\* C31: with new-hit beacons of one session overlapping, a Session whose
\* is_bounce differs from (it has at most one Hit row) has a beacon between
\* its hit insert and the end of its recompute; so once every beacon has
\* completed, is_bounce is right for every session.
C31_BounceSettles ==
    \A s \in DOMAIN sessions :
        (sessions[s].is_bounce # (Cardinality(HitsOf(s)) <= 1)) =>
            \E p \in Procs : Recomputing(p, s)

\* the invocation that took this step is one for the service of row
StepOfService(row) ==
    \E p \in Procs : task'[p] # task[p] /\ task[p].service.id = row.service_id

\* C32: a step of process_ingress changes Hit and Session rows of the service
\* its beacon was addressed to only, whatever idempotency key or identifier
\* the beacon carries.
C32_ServicesIsolated ==
    [][/\ \A h \in DOMAIN hits :
              (h \in DOMAIN hits' /\ hits'[h] # hits[h]) => StepOfService(hits[h])
       /\ \A s \in DOMAIN sessions :
              (s \in DOMAIN sessions' /\ sessions'[s] # sessions[s]) =>
                  StepOfService(sessions[s])]_vars

\* the sum of heartbeats over the Hit rows ids
RECURSIVE SumHeartbeats(_)
SumHeartbeats(ids) ==
    IF ids = {} THEN 0
    ELSE LET h == CHOOSE x \in ids : TRUE
         IN  hits[h].heartbeats + SumHeartbeats(ids \ {h})

\* C33: without store errors and deletions, once the beacons received so far
\* (all of them pass the privacy gate and the robot filter) have been
\* processed, overlapping or not, the number of Hit rows plus the sum of their
\* heartbeats is the number of beacons: each inserted one row or incremented
\* one row's heartbeats once.
C33_EveryBeaconCountedOnce ==
    Quiet => Cardinality(DOMAIN hits) + SumHeartbeats(DOMAIN hits) = started

\* two overlapping beacons are done: the first inserted a Hit, the second
\* found it under the idempotency key and incremented its heartbeats
C33_Witness ==
    /\ Quiet
    /\ started = MaxConcBeacons
    /\ \E p \in Procs : task[p].overlapped /\ IsHeartbeat(task[p])
    /\ \E h \in DOMAIN hits : hits[h].heartbeats > 0

\* C34: every SessionId the session-association cache holds is the id of a
\* Session row and every HitId the hit-idempotency cache holds is the id of
\* a Hit row, whatever beacons and service deletions came before.
C34_CachedRowsExist ==
    /\ \A k \in DOMAIN session_associations : session_associations[k] \in DOMAIN sessions
    /\ \A k \in DOMAIN hit_idempotency : hit_idempotency[k] \in DOMAIN hits

(* ------------------------------ SpecScript: script GET and update ------- *)
\* script requests started in one run of the script specification
MaxScriptRequests == 3
\* service updates started in one run of the script specification
MaxScriptUpdates == 2

\* the script_get_handler_internal future once the services row is read
\* (overlapped, since: history, the invocations in flight and the updates
\* written when the row was read)
ScriptTask(service, tracking_id, headers) ==
    [since |-> updates] @@
    [IdleTask EXCEPT !.pc = "get_script_inject", !.n = started + 1, !.tracker = Js,
                     !.service = service, !.tracking_id = tracking_id,
                     !.headers = headers, !.overlapped = ~Quiet]

\* the script response (script_inject: what generate_tracker_script was given;
\* subsequent: history, no other invocation was in flight when the services
\* row was read, an update had been written and none was written since)
ScriptResponse(t, script) ==
    [script_inject |-> script,
     subsequent |-> ~t.overlapped /\ t.since = updates /\ updates > 0] @@
    [n |-> t.n, handler |-> "script_get", code |-> 200,
     body |-> IF is_dnt_enabled(t.headers) /\ t.service.respect_dnt
              THEN "script dnt" ELSE "script",
     tracking_id |-> t.tracking_id, headers |-> t.headers, service |-> t.service]

\* script_get_handler_internal up to the cache: get_active_service_by_tracking_id,
\* validate_origin
ScriptGetService(p, tracking_id, headers) ==
    LET found == get_active_service_by_tracking_id(tracking_id)
        service == Unwrap(found)
    IN  /\ Free(p)
        /\ started' = started + 1
        /\ UNCHANGED <<store, caches, settings, day, now, updates, sent, lost, written>>
        /\ IF ~IsSome(found)
           THEN /\ resp' = Response("script_get", 404, "Service not found", tracking_id, headers,
                                 NoService)
                /\ task' = [task EXCEPT ![p] = IdleTask]
           ELSE IF ~validate_origin(headers, service)[2]
           THEN /\ resp' = Response("script_get", 403, "Invalid origin", tracking_id, headers,
                                 service)
                /\ task' = [task EXCEPT ![p] = IdleTask]
           ELSE /\ resp' = resp
                /\ task' = [task EXCEPT ![p] = ScriptTask(service, tracking_id, headers)]

\* get_or_insert_script_inject: self.script_inject.get(&service_id).await
ScriptCacheGet(p) ==
    /\ task[p].pc = "get_script_inject"
    /\ IF task[p].service.id \in DOMAIN script_inject
       THEN /\ resp' = ScriptResponse(task[p], script_inject[task[p].service.id])
            /\ task' = [task EXCEPT ![p].pc = "done"]
       ELSE /\ resp' = resp
            /\ task' = [task EXCEPT ![p].pc = "insert_script_inject"]
    /\ UNCHANGED <<store, caches, settings, day, now, started, updates, sent, lost, written>>

\* get_or_insert_script_inject after the miss: f() is the script_inject of
\* the row the handler read, insert replaces whatever the cache holds
ScriptCacheInsert(p) ==
    /\ task[p].pc = "insert_script_inject"
    /\ script_inject' = (task[p].service.id :> task[p].service.script_inject) @@ script_inject
    /\ resp' = ScriptResponse(task[p], task[p].service.script_inject)
    /\ task' = [task EXCEPT ![p].pc = "done"]
    /\ UNCHANGED <<store, service_origins, session_associations, hit_idempotency,
                   settings, day, now, started, updates, sent, lost, written>>

\* dashboard::service_update up to the cache: db::update_service returned Ok
ServiceUpdateStore(p, service_id, form) ==
    /\ Free(p)
    /\ service_id \in DOMAIN services
    /\ services' = update_service(service_id, form)
    /\ updates' = updates + 1
    /\ task' = [task EXCEPT ![p] =
           [IdleTask EXCEPT !.pc = "invalidate_service", !.service = services'[service_id]]]
    /\ UNCHANGED <<sessions, hits, next_session, next_hit, caches, settings, day, now,
                   resp, started, sent, lost, written>>

\* dashboard::service_update: state.cache.invalidate_service(service_id).await
ServiceUpdateInvalidate(p) ==
    /\ task[p].pc = "invalidate_service"
    /\ service_origins' = invalidate_service(service_origins, task[p].service.id)
    /\ script_inject' = invalidate_service(script_inject, task[p].service.id)
    /\ task' = [task EXCEPT ![p].pc = "done"]
    /\ UNCHANGED <<store, session_associations, hit_idempotency, settings, day, now,
                   resp, started, updates, sent, lost, written>>

ScriptForms ==
    {[origins |-> OriginsStar, respect_dnt |-> FALSE, ignore_robots |-> FALSE,
      collect_ips |-> FALSE, ignored_ips |-> None, script_inject |-> Some(s)] :
         s \in {<<"x">>, <<"y">>}}

ScriptGet ==
    /\ started < MaxScriptRequests
    /\ \E p \in Procs, t \in {"t1", "t2", "t3"} :
          ScriptGetService(p, t, Browser(<<"10.0.0.1">>))

ScriptStep == \E p \in Procs : ScriptCacheGet(p) \/ ScriptCacheInsert(p)

ScriptUpdate ==
    /\ updates < MaxScriptUpdates
    /\ \E p \in Procs, service_id \in {1, 2}, form \in ScriptForms :
          ServiceUpdateStore(p, service_id, form)

ScriptInvalidate == \E p \in Procs : ServiceUpdateInvalidate(p)

NextScript == ScriptGet \/ ScriptStep \/ ScriptUpdate \/ ScriptInvalidate

SpecScript == Init /\ [][NextScript]_vars

\* C35: a tracker-script GET that starts when no update and no other GET is
\* in flight, after a service update has completed, and during which no update
\* is written, serves the script_inject the services row holds.
C35_UpdatedScriptServed ==
    [][(resp' # resp /\ resp'.handler = "script_get" /\ resp'.code = 200
            /\ resp'.subsequent) =>
          resp'.script_inject = services[resp'.service.id].script_inject]_vars

(* ------------------------------ SpecPool: create_hit over the pool ------ *)
\* connections of the pool in one run (create_pool: max_connections(10))
MaxConnections == 2

\* the pool's connections; execute(pool) and fetch_one(pool) each run their
\* statement on one of them
Connections == 1..MaxConnections

\* SELECT last_insert_rowid() on a connection: the rowid of the last row
\* inserted over that connection, 0 when it has inserted none (conn, on a
\* hits row: history, the connection that inserted it)
last_insert_rowid(conn) ==
    LET inserted == {h \in DOMAIN hits : hits[h].conn = conn}
    IN  IF inserted = {} THEN 0 ELSE CHOOSE h \in inserted : \A x \in inserted : x <= h

\* db::create_hit, sqlite, first statement: INSERT INTO hits ... .execute(pool)
SqliteInsertHit(p) ==
    LET t == task[p]
        row == create_hit([session_id |-> t.session_id, service_id |-> t.service.id,
                           initial |-> t.initial, start_time |-> t.time,
                           tracker |-> t.tracker, idempotency |-> t.idempotency,
                           by |-> t.n, overlapped |-> t.overlapped])
    IN  /\ t.pc = "create_hit"
        /\ IF references(sessions, t.session_id) /\ references(services, t.service.id)
           THEN /\ \E conn \in Connections :
                      hits' = (next_hit :> ([conn |-> conn] @@ row)) @@ hits
                /\ next_hit' = next_hit + 1
                /\ task' = [task EXCEPT ![p].pc = "last_insert_rowid", ![p].wrote = TRUE]
           ELSE /\ task' = [task EXCEPT ![p] = Return(t, "error")]
                /\ UNCHANGED <<hits, next_hit>>
        /\ UNCHANGED <<services, sessions, next_session, caches, settings, day, now,
                       resp, started, updates, sent, lost, written>>

\* db::create_hit, sqlite, second statement and get_hit:
\* SELECT last_insert_rowid() .fetch_one(pool), then the row of that id
\* ("Hit not found" when there is none)
SqliteLastInsertRowid(p) ==
    LET t == task[p]
    IN  /\ t.pc = "last_insert_rowid"
        /\ \E conn \in Connections :
              LET id == last_insert_rowid(conn)
              IN  task' = [task EXCEPT ![p] =
                      IF id \in DOMAIN hits
                      THEN [t EXCEPT !.pc = "recalculate_count", !.hit_id = id]
                      ELSE Return(t, "error")]
        /\ UNCHANGED <<store, caches, settings, day, now, resp, started, updates, sent,
                       lost, written>>

PoolStep == \E p \in Procs : task[p].pc # "create_hit" /\ Step(p)

PoolInsert == \E p \in Procs : SqliteInsertHit(p)

PoolRowid == \E p \in Procs : SqliteLastInsertRowid(p)

NextPool == ConcPixel \/ ConcScriptPost \/ PoolStep \/ PoolInsert \/ PoolRowid

SpecPool == Init /\ [][NextPool]_vars

\* C36: the HitId create_hit has returned to a request is the id of the Hit
\* row that request inserted, and the row a hit-idempotency entry names was
\* inserted by a request with that idempotency key.
C36_OwnHitReturned ==
    /\ \A p \in Procs :
          task[p].pc \in {"recalculate_count", "recalculate_update"} =>
              /\ task[p].hit_id \in DOMAIN hits
              /\ hits[task[p].hit_id].by = task[p].n
    /\ \A k \in {"k1"} :
          idempotency_key(k) \in DOMAIN hit_idempotency =>
              /\ hit_idempotency[idempotency_key(k)] \in DOMAIN hits
              /\ hits[hit_idempotency[idempotency_key(k)]].idempotency = k

\* C37: no step lowers the last_seen of a Session row.
C37_LastSeenNeverDecreases ==
    [][\A s \in DOMAIN sessions :
          s \in DOMAIN sessions' => sessions'[s].last_seen >= sessions[s].last_seen]_vars

=============================================================================
